---- MODULE Spec2Model ----
(***************************************************************************)
(* A model of github.com/uscott/go-blackscholes: the closed-form pricing   *)
(* engine (Price, the Greeks, Intrinsic and the degenerate-regime          *)
(* helpers) and the implied-volatility solvers.                            *)
(*                                                                         *)
(* Numbers.  The program computes in float64; the model computes in        *)
(* fixed point over the integers, so that every value has a finite         *)
(* resolution, as a float64 has:                                           *)
(*   - a float64 result is a record [k, n]: k = "num" with the scaled      *)
(*     integer n, k = "nan" (NaN), or k = "inf" with the sign n;           *)
(*   - money (spot, strike, prices) is counted in units of 1/ONE;          *)
(*   - rates are whole multiples of ln 2, so that the discount factor      *)
(*     exp(-rate*t) is the exact dyadic 2^(-rate*t);                       *)
(*   - volatility is counted in units of 1/VolScale, d1 and d2 in units of *)
(*     1/DScale, probabilities and densities in units of 1/NormScale;      *)
(*   - NormCDF, NormPDF, Log and Sqrt are computed from tables, to the     *)
(*     resolution of those units (NormCDF saturates at 0 and 1 in the      *)
(*     tails, as math.Erf does in float64).                                *)
(***************************************************************************)
EXTENDS Integers, Sequences, FiniteSets, TLC

VARIABLES
    op,      \* analytic engine: the operation applied ("none" before the call)
    args,    \* analytic engine: the arguments of the call
    res,     \* analytic engine: the (value, error) pair returned
    ivArgs,  \* ImpliedVol: the arguments of the call
    iv,      \* ImpliedVol: its local variables and its position (pc)
    sim,     \* PriceSim: its arguments, local variables and position
    par,     \* BSPriceSim: the main goroutine, the workers and what they share
    inv      \* NormCDFInverse: the argument and the result of the call

vars == << op, args, res, ivArgs, iv, sim, par, inv >>

\* a component of the program that takes no part in the call observed
Idle == [pc |-> "idle"]

(***************************************************************************)
(* Bounds of the model's inputs.                                           *)
(***************************************************************************)
MaxVolK == 2      \* vol ranges over -MaxVolK*VolStep .. MaxVolK*VolStep
MaxT == 2         \* timeToExpiry ranges over -1 .. MaxT
MaxSpot == 2      \* spot ranges over -1 .. MaxSpot
MaxStrike == 2    \* strike ranges over -1 .. MaxStrike
MaxRate == 1      \* interestRate, dividendYield range over 0 .. MaxRate (x ln 2)
MaxIvT == 1       \* ImpliedVol: timeToExpiry ranges over -1 .. MaxIvT
MaxIvSpot == 2    \* ImpliedVol: spot ranges over 0 .. MaxIvSpot
MaxIvStrike == 2  \* ImpliedVol: strike ranges over 0 .. MaxIvStrike
MaxIvRate == 1    \* ImpliedVol: the rates range over 0 .. MaxIvRate (x ln 2)
MaxIter == 2      \* ImpliedVol: a supplied MaxIterations ranges over -2 .. MaxIter
MaxSimVolK == 1   \* PriceSim: vol ranges over -MaxSimVolK*VolStep .. MaxSimVolK*VolStep
MaxSimT == 1      \* PriceSim: timeToExpiry ranges over -1 .. MaxSimT
MaxSimPrice == 2  \* PriceSim: spot and strike range over -1 .. MaxSimPrice
MaxSimRate == 1   \* PriceSim: the rates range over 0 .. MaxSimRate (x ln 2)
MaxPaths == 4     \* PriceSim: a supplied numPaths ranges over 0 .. MaxPaths
MaxSimN == 3      \* BSPriceSim: n ranges over 0 .. MaxSimN
MaxQDen == 8      \* NormCDFInverse: q = num/den with den in 1 .. MaxQDen
MaxQOut == 2      \* NormCDFInverse: num ranges over -MaxQOut .. den + MaxQOut

(***************************************************************************)
(* Units.                                                                  *)
(***************************************************************************)
NormScale == 32768                   \* 1.0 as a probability or a density
MoneyScale == 2 ^ (MaxRate * MaxT)   \* makes every discounted input exact
ONE == MoneyScale * NormScale        \* 1.0 as an amount of money
VolScale == 800                      \* 1.0 as a volatility
DScale == 1600                       \* 1.0 as a value of d1, d2
LnScale == 1000                      \* 1.0 as a logarithm
VolStep == VolScale \div 5           \* the input grid of vol: 0.2

(***************************************************************************)
(* float64 values.                                                         *)
(***************************************************************************)
Num(n) == [k |-> "num", n |-> n]
NaN == [k |-> "nan", n |-> 0]
Inf(s) == [k |-> "inf", n |-> s]
IsNaN(x) == x.k = "nan"
IsNum(x) == x.k = "num"

Abs(n) == IF n < 0 THEN -n ELSE n
Max(a, b) == IF a < b THEN b ELSE a

\* floor(a*b/c) for 0 < c, without leaving the 32-bit integers
MulDiv(a, b, c) == (a \div c) * b + ((a % c) * b) \div c

\* x * math.Exp(-rate*t): rate is a multiple of ln 2, so the factor is 2^(-rate*t)
Disc(x, rate, t) ==
    IF rate * t >= 0 THEN x \div (2 ^ (rate * t)) ELSE x * (2 ^ (-(rate * t)))

\* math.Sqrt(t), in thousandths
SqrtMilli == << 1000, 1414, 1732, 2000, 2236, 2449 >>
Sqrt(t) == IF t = 0 THEN 0 ELSE SqrtMilli[t]

\* math.Log of an odd integer 1, 3, .. 15, in units of 1/LnScale
LnOdd == << 0, 1099, 1609, 1946, 2197, 2398, 2565, 2708 >>
LN2 == 693

RECURSIVE Ln(_)
Ln(n) == IF n % 2 = 0 THEN LN2 + Ln(n \div 2) ELSE LnOdd[(n + 1) \div 2]

\* math.Log(a/b) for amounts of money a, b > 0
Log(a, b) == Ln(a \div NormScale) - Ln(b \div NormScale)

(***************************************************************************)
(* normal.go: the standard normal distribution, by linear interpolation    *)
(* between knots 0.25 apart.                                               *)
(***************************************************************************)
CDFKnots == << 16384, 19618, 22658, 25342, 27569, 29306, 30579, 31455, 32023,
               32367, 32565, 32670, 32724, 32749, 32760, 32765, 32767, 32768 >>
PDFKnots == << 13073, 12670, 11536, 9868, 7929, 5985, 4244, 2827, 1769,
               1040, 574, 298, 145, 66, 29, 12, 4, 2 >>
KnotStep == DScale \div 4

Interp(tab, z) ==
    LET i == z \div KnotStep
        f == z % KnotStep
    IN  IF i + 2 > Len(tab) THEN tab[Len(tab)]
        ELSE tab[i + 1] + ((tab[i + 2] - tab[i + 1]) * f) \div KnotStep

NormCDF(x) == IF x >= 0 THEN Interp(CDFKnots, x) ELSE NormScale - Interp(CDFKnots, -x)

NormPDF(x) == IF Abs(x) \div KnotStep + 2 > Len(PDFKnots) THEN 0 ELSE Interp(PDFKnots, Abs(x))

(***************************************************************************)
(* blackscholes.go: option types and parameter validation.                 *)
(***************************************************************************)
Call == "c"
Put == "p"
Straddle == "s"
InvalidType == " "

ValidOptionType(optionType) ==
    optionType = Call \/ optionType = Put \/ optionType = Straddle

\* A faulty validator that lets every option type through
CheckPriceParamsAnyType(timeToExpiry, spot, strike, optionType) ==
    IF timeToExpiry < 0 THEN "ErrNegTimeToExp"
    ELSE IF spot < 0 THEN "ErrNegPrice"
    ELSE IF strike < 0 THEN "ErrNegStrike"
    ELSE "nil"

\* A faulty validator that looks at the spot before the time to expiry
CheckPriceParamsSpotFirst(timeToExpiry, spot, strike, optionType) ==
    IF ~ValidOptionType(optionType) THEN "ErrUnknownOptionType"
    ELSE IF spot < 0 THEN "ErrNegPrice"
    ELSE IF timeToExpiry < 0 THEN "ErrNegTimeToExp"
    ELSE IF strike < 0 THEN "ErrNegStrike"
    ELSE "nil"

CheckPriceParams(timeToExpiry, spot, strike, optionType) ==
    IF ~ValidOptionType(optionType) THEN "ErrUnknownOptionType"
    ELSE IF timeToExpiry < 0 THEN "ErrNegTimeToExp"
    ELSE IF spot < 0 THEN "ErrNegPrice"
    ELSE IF strike < 0 THEN "ErrNegStrike"
    ELSE "nil"

\* getd1d2: vol in volatility units; spot, strike in money units
getd1d2(vol, timeToExpiry, spot, strike, interestRate, dividendYield) ==
    IF timeToExpiry <= 0 THEN [d1 |-> NaN, d2 |-> NaN, err |-> "ErrNegTimeToExp"]
    ELSE IF vol <= 0 THEN [d1 |-> NaN, d2 |-> NaN, err |-> "ErrNegVol"]
    ELSE IF spot <= 0 \/ strike <= 0
         THEN [d1 |-> NaN, d2 |-> NaN, err |-> "invalid spot or strike price"]
    ELSE LET s == Disc(spot, dividendYield, timeToExpiry)
             k == Disc(strike, interestRate, timeToExpiry)
             v == (vol * Sqrt(timeToExpiry)) \div 1000
             d1 == (Log(s, k) * ((VolScale * DScale) \div LnScale)) \div v
                   + (v * DScale) \div (2 * VolScale)
         IN  [d1 |-> Num(d1), d2 |-> Num(d1 - (v * DScale) \div VolScale), err |-> "nil"]

Intrinsic(timeToExpiry, spot, strike, interestRate, dividendYield, optionType) ==
    LET forwardValue == Disc(spot, dividendYield, timeToExpiry)
                        - Disc(strike, interestRate, timeToExpiry)
    IN  IF optionType = Call THEN Max(0, forwardValue)
        ELSE IF optionType = Put THEN Max(0, -forwardValue)
        ELSE Abs(forwardValue)

PriceZeroStrike(t, x, q, o) ==
    IF o = Call \/ o = Straddle THEN Num(Disc(x, q, t))
    ELSE IF o = Put THEN Num(0)
    ELSE NaN

\* A faulty zero-spot price that forgets to discount the strike
PriceZeroSpotUndiscounted(t, k, r, o) ==
    IF o = Call THEN Num(0)
    ELSE IF o = Put \/ o = Straddle THEN Num(k)
    ELSE NaN

PriceZeroSpot(t, k, r, o) ==
    IF o = Call THEN Num(0)
    ELSE IF o = Put \/ o = Straddle THEN Num(Disc(k, r, t))
    ELSE NaN

\* A faulty closed form whose put pays the whole discounted strike
PriceFormulaPutSign(spot, strike, Nd1, Nd2, optionType) ==
    IF optionType = Call
        THEN MulDiv(spot, Nd1, NormScale) - MulDiv(strike, Nd2, NormScale)
    ELSE IF optionType = Put
        THEN MulDiv(spot, Nd1 - NormScale, NormScale) - MulDiv(strike, Nd2, NormScale)
    ELSE MulDiv(spot, 2 * Nd1 - NormScale, NormScale)
         - MulDiv(strike, 2 * Nd2 - NormScale, NormScale)

\* A faulty closed form whose straddle counts the strike leg once
PriceFormulaStraddleOnce(spot, strike, Nd1, Nd2, optionType) ==
    IF optionType = Call
        THEN MulDiv(spot, Nd1, NormScale) - MulDiv(strike, Nd2, NormScale)
    ELSE IF optionType = Put
        THEN MulDiv(spot, Nd1 - NormScale, NormScale)
             - MulDiv(strike, Nd2 - NormScale, NormScale)
    ELSE MulDiv(spot, 2 * Nd1 - NormScale, NormScale)
         - MulDiv(strike, Nd2 - NormScale, NormScale)

\* Price, lines 132-139: the closed form, from the discounted spot and strike
PriceFormula(spot, strike, Nd1, Nd2, optionType) ==
    IF optionType = Call
        THEN MulDiv(spot, Nd1, NormScale) - MulDiv(strike, Nd2, NormScale)
    ELSE IF optionType = Put
        THEN MulDiv(spot, Nd1 - NormScale, NormScale)
             - MulDiv(strike, Nd2 - NormScale, NormScale)
    ELSE MulDiv(spot, 2 * Nd1 - NormScale, NormScale)
         - MulDiv(strike, 2 * Nd2 - NormScale, NormScale)

\* A faulty dispatch that looks at the volatility first
PriceBranchVolFirst(vol, spot, strike) ==
    IF vol = 0 THEN "zero-vol"
    ELSE IF spot = 0 THEN "zero-spot"
    ELSE IF strike = 0 THEN "zero-strike"
    ELSE "general"

\* Price, lines 105-115: the switch over the degenerate cases, first match wins
PriceBranch(vol, spot, strike) ==
    IF spot = 0 THEN "zero-spot"
    ELSE IF strike = 0 THEN "zero-strike"
    ELSE IF vol = 0 THEN "zero-vol"
    ELSE "general"

\* Price: vol in volatility units, spot and strike in money units
Price(vol, timeToExpiry, spot, strike, interestRate, dividendYield, optionType) ==
    LET chk == CheckPriceParams(timeToExpiry, spot, strike, optionType)
        branch == PriceBranch(vol, spot, strike)
    IN
    IF chk # "nil" THEN [val |-> NaN, err |-> chk]
    ELSE IF branch = "zero-spot"
         THEN [val |-> PriceZeroSpot(timeToExpiry, strike, interestRate, optionType),
               err |-> "nil"]
    ELSE IF branch = "zero-strike"
         THEN [val |-> PriceZeroStrike(timeToExpiry, spot, dividendYield, optionType),
               err |-> "nil"]
    ELSE IF branch = "zero-vol"
         THEN [val |-> Num(Intrinsic(timeToExpiry, spot, strike, interestRate,
                                     dividendYield, optionType)),
               err |-> "nil"]
    ELSE
    LET volIsNegative == vol < 0
        d == getd1d2(Abs(vol), timeToExpiry, spot, strike, interestRate, dividendYield)
    IN
    IF d.err # "nil" THEN [val |-> NaN, err |-> d.err]
    ELSE
    LET Nd1 == NormCDF(d.d1.n)
        Nd2 == NormCDF(d.d2.n)
        s == Disc(spot, dividendYield, timeToExpiry)
        k == Disc(strike, interestRate, timeToExpiry)
        price == PriceFormula(s, k, Nd1, Nd2, optionType)
        intrinsic == Intrinsic(timeToExpiry, s, k, 0, 0, optionType)
    IN  [val |-> Num(IF volIsNegative THEN intrinsic - (price - intrinsic) ELSE price),
         err |-> "nil"]

(***************************************************************************)
(* blackscholes.go: the Greeks.  Delta is counted in units of 1/NormScale, *)
(* Gamma in units of 1/NormScale per unit of money, Theta and Vega in      *)
(* money units.                                                            *)
(***************************************************************************)
\* math.Exp(-n) for a whole number n, in units of 1/NormScale
ExpNegKnots == << 32768, 12055, 4435, 1631, 600, 221, 81, 30, 11, 4, 1 >>
ExpNeg(n) == IF n + 1 > Len(ExpNegKnots) THEN 0 ELSE ExpNegKnots[n + 1]

\* rate * x for a rate given in multiples of ln 2
RateMul(rate, x) == MulDiv(x * rate, LN2, LnScale)

\* DeltaZeroStrike(t, q, o): q is a float64, here a whole number
DeltaZeroStrike(t, q, o) ==
    IF o = Call \/ o = Straddle THEN Num(ExpNeg(q * t))
    ELSE IF o = Put THEN Num(0)
    ELSE NaN

DeltaZeroSpot(t, q, o) ==
    IF o = Call THEN Num(0)
    ELSE IF o = Put \/ o = Straddle THEN Num(-Disc(NormScale, q, t))
    ELSE NaN

\* A faulty zero-vol delta that counts the kink as in the money
DeltaZeroVolKinkInTheMoney(t, x0, k0, r, q, o) ==
    LET dfq == Disc(NormScale, q, t)
        x == Disc(x0, q, t)
        k == Disc(k0, r, t)
    IN  IF o = Call THEN (IF x < k THEN Num(0) ELSE Num(dfq))
        ELSE IF o = Put THEN (IF x < k THEN Num(-dfq) ELSE Num(0))
        ELSE IF o = Straddle THEN (IF x < k THEN Num(-dfq) ELSE Num(dfq))
        ELSE NaN

DeltaZeroVol(t, x0, k0, r, q, o) ==
    LET dfq == Disc(NormScale, q, t)
        x == Disc(x0, q, t)
        k == Disc(k0, r, t)
    IN  IF o = Call
            THEN (IF x < k THEN Num(0) ELSE IF x > k THEN Num(dfq) ELSE Num(dfq \div 2))
        ELSE IF o = Put
            THEN (IF x < k THEN Num(-dfq) ELSE IF x > k THEN Num(0) ELSE Num(-(dfq \div 2)))
        ELSE IF o = Straddle
            THEN (IF x < k THEN Num(-dfq) ELSE IF x > k THEN Num(dfq) ELSE Num(0))
        ELSE NaN

GammaZeroVol(t, x, k, r, q) ==
    IF Disc(x, q, t) - Disc(k, r, t) # 0 THEN Num(0) ELSE Inf(1)

ThetaZeroStrike(t, x, q, o) ==
    IF o = Call \/ o = Straddle THEN Num(RateMul(q, Disc(x, q, t)))
    ELSE IF o = Put THEN Num(0)
    ELSE NaN

ThetaZeroSpot(t, k, r, o) ==
    IF o = Call THEN Num(0)
    ELSE IF o = Put \/ o = Straddle THEN Num(RateMul(r, Disc(k, r, t)))
    ELSE NaN

ThetaZeroVol(t, x0, k0, r, q, o) ==
    LET x == Disc(x0, q, t)
        k == Disc(k0, r, t)
        qx == RateMul(q, x)
        rk == RateMul(r, k)
    IN  IF o = Call
            THEN (IF x > k THEN Num(qx - rk) ELSE IF x < k THEN Num(0) ELSE Num(qx))
        ELSE IF o = Put
            THEN (IF x > k THEN Num(0) ELSE IF x < k THEN Num(rk - qx) ELSE Num(rk))
        ELSE IF o = Straddle
            THEN (IF x > k THEN Num(qx - rk) ELSE IF x < k THEN Num(rk - qx)
                  ELSE Num(qx + rk))
        ELSE NaN

Delta(vol, timeToExpiry, spot, strike, interestRate, dividendYield, optionType) ==
    LET chk == CheckPriceParams(timeToExpiry, spot, strike, optionType)
    IN
    IF chk # "nil" THEN [val |-> NaN, err |-> chk]
    ELSE IF spot = 0
         THEN [val |-> DeltaZeroSpot(timeToExpiry, dividendYield, optionType), err |-> "nil"]
    ELSE IF strike = 0
         THEN [val |-> DeltaZeroStrike(timeToExpiry, spot \div ONE, optionType), err |-> "nil"]
    ELSE IF vol = 0
         THEN [val |-> DeltaZeroVol(timeToExpiry, spot, strike, interestRate,
                                    dividendYield, optionType),
               err |-> "nil"]
    ELSE
    LET volIsNegative == vol < 0
        d == getd1d2(Abs(vol), timeToExpiry, spot, strike, interestRate, dividendYield)
    IN
    IF d.err # "nil" THEN [val |-> NaN, err |-> d.err]
    ELSE
    LET Nd1 == NormCDF(d.d1.n)
        delta == IF optionType = Call THEN Disc(Nd1, dividendYield, timeToExpiry)
                 ELSE IF optionType = Put
                    THEN Disc(Nd1 - NormScale, dividendYield, timeToExpiry)
                 ELSE Disc(2 * Nd1 - NormScale, dividendYield, timeToExpiry)
        zeroVolDelta == DeltaZeroVol(timeToExpiry, spot, strike, interestRate,
                                     dividendYield, optionType).n
    IN  [val |-> Num(IF volIsNegative THEN zeroVolDelta - (delta - zeroVolDelta) ELSE delta),
         err |-> "nil"]

Gamma(vol, timeToExpiry, spot, strike, interestRate, dividendYield, optionType) ==
    LET chk == CheckPriceParams(timeToExpiry, spot, strike, optionType)
    IN
    IF chk # "nil" THEN [val |-> NaN, err |-> chk]
    ELSE IF spot = 0 \/ strike = 0 THEN [val |-> Num(0), err |-> "nil"]
    ELSE IF vol = 0
         THEN [val |-> GammaZeroVol(timeToExpiry, spot, strike, interestRate, dividendYield),
               err |-> "nil"]
    ELSE
    LET volIsNegative == vol < 0
        d == getd1d2(Abs(vol), timeToExpiry, spot, strike, interestRate, dividendYield)
    IN
    IF d.err # "nil" THEN [val |-> NaN, err |-> d.err]
    ELSE
    LET v == (Abs(vol) * Sqrt(timeToExpiry)) \div 1000
        g == (Disc(NormPDF(d.d1.n), dividendYield, timeToExpiry) * VolScale)
             \div ((spot \div ONE) * v)
        gamma == IF optionType = Straddle THEN 2 * g ELSE g
        zero == GammaZeroVol(timeToExpiry, spot, strike, interestRate, dividendYield)
    IN  [val |-> IF ~volIsNegative THEN Num(gamma)
                 ELSE IF zero.k = "inf" THEN zero
                 ELSE Num(2 * zero.n - gamma),
         err |-> "nil"]

\* A faulty dispatch that looks at the time to expiry first
ThetaBranchExpiryFirst(vol, timeToExpiry, spot, strike) ==
    IF timeToExpiry = 0 THEN "expiry"
    ELSE IF spot = 0 THEN "zero-spot"
    ELSE IF strike = 0 THEN "zero-strike"
    ELSE IF vol = 0 THEN "zero-vol"
    ELSE "general"

\* Theta, lines 298-311: the switch over the degenerate cases, first match wins
ThetaBranch(vol, timeToExpiry, spot, strike) ==
    IF spot = 0 THEN "zero-spot"
    ELSE IF strike = 0 THEN "zero-strike"
    ELSE IF vol = 0 THEN "zero-vol"
    ELSE IF timeToExpiry = 0 THEN "expiry"
    ELSE "general"

Theta(vol, timeToExpiry, spot, strike, interestRate, dividendYield, optionType) ==
    LET chk == CheckPriceParams(timeToExpiry, spot, strike, optionType)
        branch == ThetaBranch(vol, timeToExpiry, spot, strike)
    IN
    IF chk # "nil" THEN [val |-> NaN, err |-> chk]
    ELSE IF branch = "zero-spot"
         THEN [val |-> ThetaZeroSpot(timeToExpiry, strike, interestRate, optionType),
               err |-> "nil"]
    ELSE IF branch = "zero-strike"
         THEN [val |-> ThetaZeroStrike(timeToExpiry, spot, dividendYield, optionType),
               err |-> "nil"]
    ELSE IF branch = "zero-vol"
         THEN [val |-> ThetaZeroVol(timeToExpiry, spot, strike, interestRate,
                                    dividendYield, optionType),
               err |-> "nil"]
    ELSE IF branch = "expiry" THEN [val |-> Inf(-1), err |-> "nil"]
    ELSE
    LET volIsNegative == vol < 0
        d == getd1d2(Abs(vol), timeToExpiry, spot, strike, interestRate, dividendYield)
    IN
    IF d.err # "nil" THEN [val |-> NaN, err |-> d.err]
    ELSE
    LET s == Disc(spot, dividendYield, timeToExpiry)
        k == Disc(strike, interestRate, timeToExpiry)
        \* vol*spot*NormPDF(d1)
        vsp == MulDiv(MulDiv(s, NormPDF(d.d1.n), NormScale), Abs(vol), VolScale)
        overSqrt == MulDiv(vsp, 1000, Sqrt(timeToExpiry))
        timesSqrt == MulDiv(vsp, Sqrt(timeToExpiry), 1000)
        rkN(x) == RateMul(interestRate, MulDiv(k, NormCDF(x), NormScale))
        qsN(x) == RateMul(dividendYield, MulDiv(s, NormCDF(x), NormScale))
        theta == IF optionType = Call
                    THEN -(overSqrt \div 2) - rkN(d.d2.n) + qsN(d.d1.n)
                 ELSE IF optionType = Put
                    THEN -(timesSqrt \div 2) + rkN(-d.d2.n) - qsN(-d.d1.n)
                 ELSE -overSqrt - (rkN(d.d2.n) - rkN(-d.d2.n))
                      + (qsN(d.d1.n) - qsN(-d.d1.n))
        zero == ThetaZeroVol(timeToExpiry, s, k, interestRate, dividendYield, optionType)
    IN  [val |-> Num(IF volIsNegative THEN 2 * zero.n - theta ELSE theta), err |-> "nil"]

Vega(vol, timeToExpiry, spot, strike, interestRate, dividendYield, optionType) ==
    LET chk == CheckPriceParams(timeToExpiry, spot, strike, optionType)
    IN
    IF chk # "nil" THEN [val |-> NaN, err |-> chk]
    ELSE IF vol = 0 \/ timeToExpiry = 0 \/ spot = 0 \/ strike = 0
         THEN [val |-> Num(0), err |-> "nil"]
    ELSE
    LET volIsNegative == vol < 0
        d == getd1d2(Abs(vol), timeToExpiry, spot, strike, interestRate, dividendYield)
        v == MulDiv(MulDiv(Disc(spot, dividendYield, timeToExpiry),
                           IF IsNum(d.d1) THEN NormPDF(d.d1.n) ELSE 0, NormScale),
                    Sqrt(timeToExpiry), 1000)
        vega == IF optionType = Straddle THEN 2 * v ELSE v
    IN  [val |-> IF IsNaN(d.d1) THEN NaN ELSE Num(IF volIsNegative THEN -vega ELSE vega),
         err |-> d.err]

(***************************************************************************)
(* The input sets of the analytic engine.                                  *)
(***************************************************************************)
OptionTypes == {Call, Put, Straddle}
AnyTypes == OptionTypes \cup {InvalidType}
Args == [vol : {k * VolStep : k \in (-MaxVolK) .. MaxVolK},
         t : (-1) .. MaxT, spot : (-1) .. MaxSpot, strike : (-1) .. MaxStrike,
         r : 0 .. MaxRate, q : 0 .. MaxRate, o : AnyTypes]

NoArgs == [vol |-> 0, t |-> 0, spot |-> 0, strike |-> 0, r |-> 0, q |-> 0, o |-> Call]
NoResult == [val |-> Num(0), err |-> "none"]

\* each operation applied to recorded arguments (spot and strike in money units)
PriceOf(a) == Price(a.vol, a.t, a.spot * ONE, a.strike * ONE, a.r, a.q, a.o)
DeltaOf(a) == Delta(a.vol, a.t, a.spot * ONE, a.strike * ONE, a.r, a.q, a.o)
GammaOf(a) == Gamma(a.vol, a.t, a.spot * ONE, a.strike * ONE, a.r, a.q, a.o)
ThetaOf(a) == Theta(a.vol, a.t, a.spot * ONE, a.strike * ONE, a.r, a.q, a.o)
VegaOf(a) == Vega(a.vol, a.t, a.spot * ONE, a.strike * ONE, a.r, a.q, a.o)


(***************************************************************************)
(* implvol.go: ImpliedVol(premium, timeToExpiry, spot, strike,             *)
(* interestRate, dividendYield, optionType, params...), the solver with    *)
(* positional arguments.  Volatilities (lb, ub, tol, vol) are counted in   *)
(* units of 1/VolScale; the tolerance 2^-30 is far below that unit and is  *)
(* counted as one unit, the smallest positive tolerance of the model.      *)
(***************************************************************************)
defaultTolerance == 1
defaultUpperBound == 8
defaultLowerBound == 1592
defaultMaxIterations == 1000000
boundIncrement == 376

\* a nil pointer field of ImpliedVolParams is a field the record does not have
Field(p, name, default) == IF name \in DOMAIN p THEN p[name] ELSE default

\* lines 203-219: the search configuration, params being the variadic argument
SearchParams(params) ==
    LET p == IF Len(params) > 0 THEN params[1] ELSE << >>
    IN  [tol |-> IF Len(params) > 0 THEN Field(p, "Tolerance", defaultTolerance)
                 ELSE defaultTolerance,
         lb |-> IF Len(params) > 0 THEN Field(p, "LowerBound", defaultLowerBound)
                ELSE defaultLowerBound,
         ub |-> IF Len(params) > 0 THEN Field(p, "UpperBound", defaultUpperBound)
                ELSE defaultUpperBound,
         maxit |-> IF Len(params) > 0 THEN Field(p, "MaxIterations", defaultMaxIterations)
                   ELSE defaultMaxIterations]

\* A faulty sign correction that flips every volatility
CorrectVolSignFlipped(extrinsic, vol) ==
    IF IsNum(vol) THEN Num(-vol.n) ELSE vol

\* implvol.go CorrectVolSign(extrinsic, vol): vol is a float64, possibly NaN
CorrectVolSign(extrinsic, vol) ==
    IF IsNum(vol) /\ ((extrinsic > 0 /\ vol.n < 0) \/ (extrinsic < 0 /\ vol.n > 0))
    THEN Num(-vol.n)
    ELSE vol

\* Price at the arguments of the call, for a volatility v
PriceAt(v, a) == Price(v, a.t, a.spot * ONE, a.strike * ONE, a.r, a.q, a.o)

IvFrame == [pc |-> "idle", lb |-> 0, ub |-> 0, tol |-> 0, maxit |-> 0, it |-> 0,
            lowPrice |-> 0, highPrice |-> 0, vol |-> Num(0), err |-> "nil",
            extrinsic |-> 0]
NoIvArgs == [premium |-> 0, t |-> 0, spot |-> 0, strike |-> 0, r |-> 0, q |-> 0,
             o |-> Call, params |-> << >>, sigma |-> 0]

IvReturn(f, vol, err) == [f EXCEPT !.pc = "done", !.vol = vol, !.err = err]

\* lines 191-232: validation, the zero-extrinsic return, the configuration and
\* the prices at the two bounds
ImpliedVolEnter ==
    /\ iv.pc = "enter"
    /\ LET a == ivArgs
           chk == CheckPriceParams(a.t, a.spot * ONE, a.strike * ONE, a.o)
           intrinsic == Intrinsic(a.t, a.spot * ONE, a.strike * ONE, a.r, a.q, a.o)
           extrinsic == a.premium - intrinsic
           p == SearchParams(a.params)
           low == PriceAt(p.lb, a)
           high == PriceAt(p.ub, a)
           f == [iv EXCEPT !.tol = p.tol, !.lb = p.lb, !.ub = p.ub, !.maxit = p.maxit,
                           !.extrinsic = extrinsic]
       IN  iv' = IF chk # "nil" THEN IvReturn(iv, NaN, chk)
                 \* math.Abs(extrinsic) <= math.SmallestNonzeroFloat64
                 ELSE IF extrinsic = 0 THEN IvReturn(iv, Num(0), "nil")
                 ELSE IF low.err # "nil" THEN IvReturn(f, NaN, low.err)
                 ELSE IF high.err # "nil" THEN IvReturn(f, NaN, high.err)
                 ELSE [f EXCEPT !.pc = "adjust", !.vol = NaN,
                                !.lowPrice = low.val.n, !.highPrice = high.val.n]
    /\ UNCHANGED << op, args, res, ivArgs, sim, par, inv >>

\* lines 238-257: one iteration of the loop that adjusts the bounds
ImpliedVolAdjust ==
    /\ iv.pc = "adjust"
    /\ (ivArgs.premium < iv.lowPrice \/ iv.highPrice < ivArgs.premium)
    /\ LET a == ivArgs
           lb1 == IF a.premium < iv.lowPrice THEN iv.lb - boundIncrement ELSE iv.lb
           low == IF a.premium < iv.lowPrice THEN PriceAt(lb1, a)
                  ELSE [val |-> Num(iv.lowPrice), err |-> "nil"]
           ub1 == IF iv.highPrice < a.premium THEN iv.ub + boundIncrement ELSE iv.ub
           high == IF iv.highPrice < a.premium THEN PriceAt(ub1, a)
                   ELSE [val |-> Num(iv.highPrice), err |-> "nil"]
       IN  iv' = IF iv.it > iv.maxit THEN IvReturn(iv, iv.vol, "ErrMaxIterations")
                 ELSE IF low.err # "nil"
                    THEN IvReturn([iv EXCEPT !.lb = lb1], iv.vol, low.err)
                 ELSE IF high.err # "nil"
                    THEN IvReturn([iv EXCEPT !.lb = lb1, !.lowPrice = low.val.n,
                                             !.ub = ub1], iv.vol, high.err)
                 ELSE [iv EXCEPT !.lb = lb1, !.lowPrice = low.val.n,
                                 !.ub = ub1, !.highPrice = high.val.n,
                                 !.it = iv.it + 1]
    /\ UNCHANGED << op, args, res, ivArgs, sim, par, inv >>

\* lines 238, 259-267: the loop ends; the two checks after it
ImpliedVolAdjusted ==
    /\ iv.pc = "adjust"
    /\ ~(ivArgs.premium < iv.lowPrice \/ iv.highPrice < ivArgs.premium)
    /\ iv' = IF ivArgs.premium < iv.lowPrice
                THEN IvReturn(iv, iv.vol, "failed to find lower bound")
             ELSE IF iv.highPrice < ivArgs.premium
                THEN IvReturn(iv, iv.vol, "failed to find upper bound")
             ELSE [iv EXCEPT !.pc = "bisect"]
    /\ UNCHANGED << op, args, res, ivArgs, sim, par, inv >>

\* A faulty bisection whose iterations are not capped
ImpliedVolBisectNoCap ==
    /\ iv.pc = "bisect"
    /\ iv.ub - iv.lb > iv.tol
    /\ LET mid == (iv.lb + iv.ub) \div 2
           price == PriceAt(mid, ivArgs)
       IN  iv' = IF price.err # "nil" THEN IvReturn(iv, NaN, price.err)
                 ELSE IF ivArgs.premium < price.val.n
                    THEN [iv EXCEPT !.vol = Num(mid), !.ub = mid, !.it = iv.it + 1]
                 ELSE [iv EXCEPT !.vol = Num(mid), !.lb = mid, !.it = iv.it + 1]
    /\ UNCHANGED << op, args, res, ivArgs, sim, par, inv >>

\* lines 272-289: one iteration of the bisection
ImpliedVolBisect ==
    /\ iv.pc = "bisect"
    /\ iv.ub - iv.lb > iv.tol
    /\ LET mid == (iv.lb + iv.ub) \div 2
           price == PriceAt(mid, ivArgs)
       IN  iv' = IF iv.it > iv.maxit THEN IvReturn(iv, NaN, "ErrMaxIterations")
                 ELSE IF price.err # "nil" THEN IvReturn(iv, NaN, price.err)
                 ELSE IF ivArgs.premium < price.val.n
                    THEN [iv EXCEPT !.vol = Num(mid), !.ub = mid, !.it = iv.it + 1]
                 ELSE [iv EXCEPT !.vol = Num(mid), !.lb = mid, !.it = iv.it + 1]
    /\ UNCHANGED << op, args, res, ivArgs, sim, par, inv >>

\* lines 272, 291-293: the bisection ends; the sign correction and the return
ImpliedVolReturn ==
    /\ iv.pc = "bisect"
    /\ ~(iv.ub - iv.lb > iv.tol)
    /\ iv' = IvReturn(iv, CorrectVolSign(iv.extrinsic, iv.vol), iv.err)
    /\ UNCHANGED << op, args, res, ivArgs, sim, par, inv >>

(***************************************************************************)
(* The calls of ImpliedVol that are checked.  The premium is the Price of  *)
(* a volatility sigma in (0, 2), or an arbitrary amount (sigma = 0); a     *)
(* call whose search is stopped by the iteration cap alone supplies a      *)
(* small MaxIterations, so that every call ends within the model.          *)
(***************************************************************************)
Sigmas == {4, 160, 800, 1596}

IvMarkets == [t : (-1) .. MaxIvT, spot : 0 .. MaxIvSpot, strike : 0 .. MaxIvStrike,
              r : 0 .. MaxIvRate, q : 0 .. MaxIvRate, o : AnyTypes]

CappedConfigs ==
    {[MaxIterations |-> n] : n \in (-2) .. MaxIter}
    \cup {[Tolerance |-> 0, MaxIterations |-> n] : n \in 0 .. MaxIter}
    \cup {[Tolerance |-> -1, MaxIterations |-> n] : n \in 0 .. MaxIter}
    \cup {[LowerBound |-> defaultUpperBound, UpperBound |-> defaultLowerBound,
           MaxIterations |-> n] : n \in 0 .. MaxIter}
OpenConfigs ==
    {[Tolerance |-> 5 * VolScale],
     [LowerBound |-> defaultUpperBound, UpperBound |-> defaultLowerBound],
     [LowerBound |-> VolScale, UpperBound |-> VolScale],
     [LowerBound |-> defaultUpperBound, UpperBound |-> defaultLowerBound,
      Tolerance |-> 0, MaxIterations |-> MaxIter]}

WithPremium(m, premium, params, sigma) ==
    [premium |-> premium, t |-> m.t, spot |-> m.spot, strike |-> m.strike,
     r |-> m.r, q |-> m.q, o |-> m.o, params |-> params, sigma |-> sigma]

RoundTripCalls ==
    {WithPremium(c[1], PriceAt(c[2], c[1]).val.n, c[3], c[2]) :
        c \in {d \in IvMarkets \X Sigmas \X ({<< >>} \cup {<<p>> : p \in OpenConfigs}) :
                  PriceAt(d[2], d[1]).err = "nil"}}

ExtraPremiums == {0, ONE \div 4, 3 * ONE}
CappedCalls ==
    {WithPremium(c[1], c[2], <<c[3]>>, 0) :
        c \in IvMarkets \X ExtraPremiums \X CappedConfigs}

InitIV ==
    /\ op = "off" /\ args = NoArgs /\ res = NoResult
    /\ sim = Idle /\ par = Idle /\ inv = Idle
    /\ ivArgs \in RoundTripCalls \cup CappedCalls
    /\ iv = [IvFrame EXCEPT !.pc = "enter"]

NextIV ==
    ImpliedVolEnter \/ ImpliedVolAdjust \/ ImpliedVolAdjusted
        \/ ImpliedVolBisect \/ ImpliedVolReturn

SpecIV == InitIV /\ [][NextIV]_vars

(***************************************************************************)
(* implied_vol.go: ImpliedVol(pars *ImpliedVolParams), the solver that     *)
(* takes its arguments in a struct.  A nil pointer field (LB, UB, Tol,     *)
(* MaxIt) is a field the record params does not have.  The tolerance 2^-30 *)
(* is far above the spacing of float64 and far below every bracket the     *)
(* search starts with; on the grid of volatilities it is the smallest      *)
(* width that a bracket of two distinct volatilities can get under.        *)
(***************************************************************************)
tolDefault == 2
lbDefault == 8
ubDefault == 1592
MaxItDefault == 1000000
\* the literal 0.47 of the two loops that move the bounds
BoundStep == (47 * VolScale) \div 100

\* the closed-form price without the validation: the callers have validated
BSPriceNoErrorCheck(v, t, x, k, r, q, o) == Price(v, t, x, k, r, q, o).val.n

BSPrice(v, t, x, k, r, q, o) == Price(v, t, x, k, r, q, o).val.n

GetVolSearchParams(pars) ==
    [lb |-> Field(pars.params, "LB", lbDefault),
     ub |-> Field(pars.params, "UB", ubDefault),
     tol |-> Field(pars.params, "Tol", tolDefault),
     maxit |-> Field(pars.params, "MaxIt", MaxItDefault)]

CheckVolSearchParams(c) ==
    [lb |-> c.lb,
     ub |-> IF c.ub < c.lb THEN Max(c.lb + VolScale, ubDefault) ELSE c.ub,
     tol |-> IF c.tol <= 0 THEN tolDefault ELSE c.tol,
     maxit |-> IF c.maxit <= 0 THEN MaxItDefault ELSE c.maxit]

\* implied_vol.go CorrectVolSign(extrinsic, vol *float64): the new *vol
CorrectVolSignPtr(extrinsic, vol) ==
    IF (extrinsic > 0 /\ vol < 0) \/ (extrinsic < 0 /\ vol > 0) THEN -vol
    ELSE IF extrinsic = 0 THEN 0
    ELSE vol

\* BSPriceNoErrorCheck at the arguments of the call, for a volatility v
ParsPriceAt(v) ==
    BSPriceNoErrorCheck(v, ivArgs.t, ivArgs.spot * ONE, ivArgs.strike * ONE,
                        ivArgs.r, ivArgs.q, ivArgs.o)

ParsFrame == [pc |-> "entry", lb |-> 0, ub |-> 0, tol |-> 0, maxit |-> 0, it |-> 0,
              plo |-> 0, phi |-> 0, pmid |-> 0, intrval |-> 0,
              vol |-> Num(0), err |-> "nil", errPrice |-> 0, errBound |-> 0]

ParsReturn(f, vol, err) == [f EXCEPT !.pc = "done", !.vol = vol, !.err = err]

\* lines 35-59: validation, the degenerate and zero-extrinsic returns, the
\* search configuration
ParsEnter ==
    /\ op = "pars" /\ iv.pc = "entry"
    /\ LET a == ivArgs
           chk == CheckPriceParams(a.t, a.spot * ONE, a.strike * ONE, a.o)
           intrval == Intrinsic(a.t, a.spot * ONE, a.strike * ONE, a.r, a.q, a.o)
           extrval == a.premium - intrval
           c == CheckVolSearchParams(GetVolSearchParams(a))
       IN  iv' = IF chk # "nil" THEN ParsReturn(iv, NaN, chk)
                 ELSE IF a.t = 0 \/ a.spot = 0 \/ a.strike = 0
                    THEN ParsReturn(iv, Num(0), "nil")
                 ELSE IF extrval = 0 THEN ParsReturn(iv, Num(0), "nil")
                 ELSE [iv EXCEPT !.pc = "lower", !.lb = c.lb, !.ub = c.ub,
                                 !.tol = c.tol, !.maxit = c.maxit,
                                 !.intrval = intrval]
    /\ UNCHANGED << op, args, res, ivArgs, sim, par, inv >>

\* lines 60-66: one iteration of the loop that lowers the lower bound
ParsLower ==
    /\ op = "pars" /\ iv.pc = "lower" /\ iv.it < iv.maxit
    /\ LET plo == ParsPriceAt(iv.lb)
       IN  iv' = IF plo <= ivArgs.premium
                 THEN [iv EXCEPT !.plo = plo, !.pc = "lowered"]
                 ELSE [iv EXCEPT !.plo = plo, !.lb = iv.lb - BoundStep,
                                 !.it = iv.it + 1]
    /\ UNCHANGED << op, args, res, ivArgs, sim, par, inv >>

\* lines 60, 67-73: the loop has ended; the error when no lower bound was found
ParsLowerEnd ==
    /\ op = "pars"
    /\ (iv.pc = "lower" /\ ~(iv.it < iv.maxit)) \/ iv.pc = "lowered"
    /\ iv' = IF ivArgs.premium < iv.plo
             THEN [ParsReturn(iv, NaN, "BoundsNotFound")
                      EXCEPT !.errPrice = iv.plo, !.errBound = iv.lb]
             ELSE [iv EXCEPT !.pc = "upper", !.it = 0]
    /\ UNCHANGED << op, args, res, ivArgs, sim, par, inv >>

\* lines 73-79: one iteration of the loop that raises the upper bound
ParsUpper ==
    /\ op = "pars" /\ iv.pc = "upper" /\ iv.it < iv.maxit
    /\ LET phi == ParsPriceAt(iv.ub)
       IN  iv' = IF ivArgs.premium <= phi
                 THEN [iv EXCEPT !.phi = phi, !.pc = "raised"]
                 ELSE [iv EXCEPT !.phi = phi, !.ub = iv.ub + BoundStep,
                                 !.it = iv.it + 1]
    /\ UNCHANGED << op, args, res, ivArgs, sim, par, inv >>

\* lines 73, 80-87: the loop has ended; the error when no upper bound was found
ParsUpperEnd ==
    /\ op = "pars"
    /\ (iv.pc = "upper" /\ ~(iv.it < iv.maxit)) \/ iv.pc = "raised"
    /\ iv' = IF iv.phi < ivArgs.premium
             THEN [ParsReturn(iv, NaN, "BoundsNotFound")
                      EXCEPT !.errPrice = iv.phi, !.errBound = iv.ub]
             ELSE [iv EXCEPT !.pc = "bisection", !.it = 0]
    /\ UNCHANGED << op, args, res, ivArgs, sim, par, inv >>

\* lines 87-101: one iteration of the bisection
ParsBisect ==
    /\ op = "pars" /\ iv.pc = "bisection" /\ iv.it < iv.maxit
    /\ LET vol == (iv.lb + iv.ub) \div 2
           pmid == ParsPriceAt(vol)
           f == [iv EXCEPT !.vol = Num(vol), !.pmid = pmid]
       IN  iv' = IF iv.ub - iv.lb < iv.tol \/ pmid = ivArgs.premium
                 THEN ParsReturn(f, Num(CorrectVolSignPtr(pmid - iv.intrval, vol)), "nil")
                 ELSE IF ivArgs.premium < pmid
                    THEN [f EXCEPT !.ub = vol, !.it = iv.it + 1]
                 ELSE [f EXCEPT !.lb = vol, !.it = iv.it + 1]
    /\ UNCHANGED << op, args, res, ivArgs, sim, par, inv >>

\* A faulty end of the bisection that hands back the last midpoint
ParsBisectEndMidpoint ==
    /\ op = "pars" /\ iv.pc = "bisection" /\ ~(iv.it < iv.maxit)
    /\ iv' = ParsReturn(iv, iv.vol, "nil")
    /\ UNCHANGED << op, args, res, ivArgs, sim, par, inv >>

\* lines 87, 103-107: the iterations are used up
ParsBisectEnd ==
    /\ op = "pars" /\ iv.pc = "bisection" /\ ~(iv.it < iv.maxit)
    /\ iv' = [ParsReturn(iv, NaN, "NonConvergence")
                 EXCEPT !.plo = BSPrice(iv.lb, ivArgs.t, ivArgs.spot * ONE,
                                        ivArgs.strike * ONE, ivArgs.r, ivArgs.q, ivArgs.o),
                        !.phi = BSPrice(iv.ub, ivArgs.t, ivArgs.spot * ONE,
                                        ivArgs.strike * ONE, ivArgs.r, ivArgs.q, ivArgs.o)]
    /\ UNCHANGED << op, args, res, ivArgs, sim, par, inv >>

\* the calls: round trips with the premium of a volatility sigma, and
\* arbitrary premiums under a small MaxIt
ParsOpenConfigs ==
    {<< >>,
     [Tol |-> (5 * VolScale) \div 8],
     [LB |-> ubDefault, UB |-> lbDefault],
     [LB |-> VolScale, UB |-> VolScale]}
ParsCappedConfigs ==
    {[MaxIt |-> n] : n \in (-1) .. MaxIter}
    \cup {[Tol |-> 0, MaxIt |-> n] : n \in 1 .. MaxIter}
    \cup {[Tol |-> 1, MaxIt |-> n] : n \in 1 .. MaxIter}

ParsRoundTripCalls ==
    {WithPremium(c[1], PriceAt(c[2], c[1]).val.n, c[3], c[2]) :
        c \in {d \in IvMarkets \X Sigmas \X ParsOpenConfigs :
                  PriceAt(d[2], d[1]).err = "nil"}}
ParsCappedCalls ==
    {WithPremium(c[1], c[2], c[3], 0) :
        c \in {d \in IvMarkets \X ExtraPremiums \X ParsCappedConfigs :
                  "MaxIt" \in DOMAIN d[3] /\ d[3].MaxIt > 0}}

InitPars ==
    /\ op = "pars" /\ args = NoArgs /\ res = NoResult
    /\ ivArgs \in ParsRoundTripCalls \cup ParsCappedCalls
    /\ iv = ParsFrame
    /\ sim = Idle /\ par = Idle /\ inv = Idle

NextPars ==
    ParsEnter \/ ParsLower \/ ParsLowerEnd \/ ParsUpper \/ ParsUpperEnd
        \/ ParsBisect \/ ParsBisectEnd

SpecPars == InitPars /\ [][NextPars]_vars

(***************************************************************************)
(* NormCDFInverse.  The argument q is a fraction num/den.  normal.go       *)
(* returns (float64, error); the revision built on gonum returns a float64 *)
(* alone, and distuv.Normal.Quantile panics outside [0, 1].  The quantile  *)
(* is counted in units of 1/DScale and read off the NormCDF table.         *)
(***************************************************************************)
RECURSIVE KnotBelow(_, _)
\* the last knot of CDFKnots at or below the probability p (in 1/NormScale)
KnotBelow(p, j) ==
    IF j + 1 > Len(CDFKnots) \/ CDFKnots[j + 1] > p THEN j ELSE KnotBelow(p, j + 1)

\* math.Sqrt2 * math.Erfinv(2*q - 1) for 0 < q < 1
QuantileOf(num, den) ==
    LET upper == 2 * num >= den
        p == IF upper THEN (num * NormScale) \div den
             ELSE ((den - num) * NormScale) \div den
        j == KnotBelow(p, 1)
        z == IF j + 1 > Len(CDFKnots) THEN (j - 1) * KnotStep
             ELSE (j - 1) * KnotStep
                  + ((p - CDFKnots[j]) * KnotStep) \div (CDFKnots[j + 1] - CDFKnots[j])
    IN  IF upper THEN z ELSE -z

\* normal.go NormCDFInverse(q), q = num/den
NormCDFInverse(num, den) ==
    IF num < 0 \/ den < num THEN [val |-> NaN, err |-> "NormCDFInverse: q must be in the range [0, 1]"]
    ELSE IF num = 0 THEN [val |-> Inf(-1), err |-> "nil"]
    ELSE IF num = den THEN [val |-> Inf(1), err |-> "nil"]
    ELSE [val |-> Num(QuantileOf(num, den)), err |-> "nil"]

\* the gonum revision: NormCDFInverse(q) = normal.Quantile(q); it has no error
\* result, and err records a panic
NormCDFInverseQuantile(num, den) ==
    IF num < 0 \/ den < num THEN [val |-> NaN, err |-> "panic"]
    ELSE IF num = 0 THEN [val |-> Inf(-1), err |-> "nil"]
    ELSE IF num = den THEN [val |-> Inf(1), err |-> "nil"]
    ELSE [val |-> Num(QuantileOf(num, den)), err |-> "nil"]

(***************************************************************************)
(* PriceSim (src/unnamed/part_000).  A call is the record args plus the    *)
(* variadic numPaths, a sequence of at most one count.  The frame sim      *)
(* holds the locals; draws lists, in order, the standard normal deviate of *)
(* every Intrinsic evaluation added to sum.  Exponents are counted in      *)
(* units of 1/LnScale, sigma in volatility units.                          *)
(***************************************************************************)
defaultNumPaths == 10000000

\* math.Exp(x) as a multiplier in units of 1/NormScale, for 0 <= x < LN2
ExpFrac(x) ==
    LET t1 == MulDiv(NormScale, x, LnScale)
        t2 == MulDiv(t1, x, 2 * LnScale)
        t3 == MulDiv(t2, x, 3 * LnScale)
        t4 == MulDiv(t3, x, 4 * LnScale)
        t5 == MulDiv(t4, x, 5 * LnScale)
    IN  NormScale + t1 + t2 + t3 + t4 + t5

\* m * math.Exp(x), m in money units, x in units of 1/LnScale
MulExp(m, x) ==
    LET k == IF x >= 0 THEN x \div LN2 ELSE -((LN2 - 1 - x) \div LN2)
        f == ExpFrac(x - k * LN2)
        scaled == IF m >= 0 THEN MulDiv(m, f, NormScale) ELSE -MulDiv(-m, f, NormScale)
    IN  IF k >= 0 THEN scaled * (2 ^ k)
        ELSE IF scaled >= 0 THEN scaled \div (2 ^ (-k)) ELSE -((-scaled) \div (2 ^ (-k)))

\* float64 addition and scaling on the records of Num, NaN
FAdd(a, b) == IF IsNaN(a) \/ IsNaN(b) THEN NaN ELSE Num(a.n + b.n)

\* sigma := vol * math.Sqrt(timeToExpiry); the root of a negative number is NaN
SimSigma(vol, timeToExpiry) ==
    IF timeToExpiry < 0 THEN NaN ELSE Num((vol * Sqrt(timeToExpiry)) \div 1000)

\* mu := -0.5 * sigma * sigma, in units of 1/LnScale
SimMu(sigma) ==
    IF IsNaN(sigma) THEN NaN
    ELSE Num(-((sigma.n * sigma.n * LnScale) \div (2 * VolScale * VolScale)))

\* sigma * z in units of 1/LnScale, z in units of 1/DScale
SigmaZ(sigma, z) ==
    LET prod == sigma * z
        unit == (VolScale * DScale) \div LnScale
    IN  IF prod >= 0 THEN prod \div unit ELSE -((-prod) \div unit)

\* spot = expectedSpot * math.Exp(mu + sign*sigma*z); Intrinsic(0, spot, strike, 0, 0, o)
PathPayoff(expectedSpot, mu, sigma, sign, z, strike, optionType) ==
    IF IsNaN(sigma) THEN NaN
    ELSE Num(Intrinsic(0, MulExp(expectedSpot, mu.n + sign * SigmaZ(sigma.n, z)),
                       strike, 0, 0, optionType))

SimFrame == [pc |-> "call", npaths |-> 0, expectedSpot |-> 0, sigma |-> Num(0),
             mu |-> Num(0), i |-> 0, sum |-> Num(0), draws |-> << >>,
             price |-> Num(0), err |-> "none"]

\* a faulty entry that reports no error for a path count of zero
PriceSimEnterZeroPathsNoError ==
    /\ sim.pc = "call"
    /\ LET npaths == IF Len(sim.numPaths) > 0 THEN sim.numPaths[1] ELSE defaultNumPaths
       IN  IF npaths = 0
           THEN sim' = [sim EXCEPT !.pc = "done", !.npaths = npaths, !.price = NaN,
                                   !.err = "nil"]
           ELSE IF ~ValidOptionType(args.o)
           THEN sim' = [sim EXCEPT !.pc = "done", !.npaths = npaths, !.price = NaN,
                                   !.err = "ErrUnknownOptionType"]
           ELSE LET sigma == SimSigma(args.vol, args.t)
                IN  sim' = [sim EXCEPT !.pc = "loop", !.npaths = npaths,
                                !.expectedSpot = Disc(args.spot * ONE, args.q - args.r, args.t),
                                !.sigma = sigma, !.mu = SimMu(sigma),
                                !.i = 1, !.sum = Num(0), !.price = NaN]
    /\ UNCHANGED << op, args, res, ivArgs, iv, par, inv >>

\* lines 16-35: the path count, the two checks, the drift and the deviation
PriceSimEnter ==
    /\ sim.pc = "call"
    /\ LET npaths == IF Len(sim.numPaths) > 0 THEN sim.numPaths[1] ELSE defaultNumPaths
       IN  IF npaths = 0
           THEN sim' = [sim EXCEPT !.pc = "done", !.npaths = npaths, !.price = NaN,
                                   !.err = "number of paths must be positive"]
           ELSE IF ~ValidOptionType(args.o)
           THEN sim' = [sim EXCEPT !.pc = "done", !.npaths = npaths, !.price = NaN,
                                   !.err = "ErrUnknownOptionType"]
           ELSE LET sigma == SimSigma(args.vol, args.t)
                IN  sim' = [sim EXCEPT !.pc = "loop", !.npaths = npaths,
                                !.expectedSpot = Disc(args.spot * ONE, args.q - args.r, args.t),
                                !.sigma = sigma, !.mu = SimMu(sigma),
                                !.i = 1, !.sum = Num(0), !.price = NaN]
    /\ UNCHANGED << op, args, res, ivArgs, iv, par, inv >>

\* a faulty loop that also runs the turn at i = npaths
PriceSimPairThroughCount ==
    /\ sim.pc = "loop" /\ sim.i <= sim.npaths
    /\ LET z == NormCDFInverseQuantile(sim.i, sim.npaths).val.n
           up == PathPayoff(sim.expectedSpot, sim.mu, sim.sigma, 1, z,
                            args.strike * ONE, args.o)
           down == PathPayoff(sim.expectedSpot, sim.mu, sim.sigma, -1, z,
                              args.strike * ONE, args.o)
       IN  sim' = [sim EXCEPT !.sum = FAdd(FAdd(sim.sum, up), down),
                              !.draws = sim.draws \o << z, -z >>,
                              !.i = sim.i + 2]
    /\ UNCHANGED << op, args, res, ivArgs, iv, par, inv >>

\* lines 39-50: one turn of the loop, the pair of paths at +z and -z
PriceSimPair ==
    /\ sim.pc = "loop" /\ sim.i < sim.npaths
    /\ LET z == NormCDFInverseQuantile(sim.i, sim.npaths).val.n
           up == PathPayoff(sim.expectedSpot, sim.mu, sim.sigma, 1, z,
                            args.strike * ONE, args.o)
           down == PathPayoff(sim.expectedSpot, sim.mu, sim.sigma, -1, z,
                              args.strike * ONE, args.o)
       IN  sim' = [sim EXCEPT !.sum = FAdd(FAdd(sim.sum, up), down),
                              !.draws = sim.draws \o << z, -z >>,
                              !.i = sim.i + 2]
    /\ UNCHANGED << op, args, res, ivArgs, iv, par, inv >>

\* a faulty exit that leaves out the unpaired path of an odd count
PriceSimFinishNoOddPath ==
    /\ sim.pc = "loop" /\ sim.i >= sim.npaths
    /\ sim' = [sim EXCEPT !.pc = "done", !.err = "nil",
                   !.price = IF IsNaN(sim.sum) THEN NaN
                             ELSE Num(Disc(sim.sum.n, args.r, args.t) \div sim.npaths)]
    /\ UNCHANGED << op, args, res, ivArgs, iv, par, inv >>

\* lines 52-59: the unpaired path of an odd count, the discount and the mean
PriceSimFinish ==
    /\ sim.pc = "loop" /\ sim.i >= sim.npaths
    /\ LET odd == sim.npaths % 2 = 1
           mid == PathPayoff(sim.expectedSpot, sim.mu, sim.sigma, 0, 0,
                             args.strike * ONE, args.o)
           sum == IF odd THEN FAdd(sim.sum, mid) ELSE sim.sum
       IN  sim' = [sim EXCEPT !.pc = "done", !.err = "nil", !.sum = sum,
                       !.draws = IF odd THEN sim.draws \o << 0 >> ELSE sim.draws,
                       !.price = IF IsNaN(sum) THEN NaN
                                 ELSE Num(Disc(sum.n, args.r, args.t) \div sim.npaths)]
    /\ UNCHANGED << op, args, res, ivArgs, iv, par, inv >>

SimArgs == [vol : {k * VolStep : k \in -MaxSimVolK .. MaxSimVolK},
            t : -1 .. MaxSimT, spot : -1 .. MaxSimPrice, strike : -1 .. MaxSimPrice,
            r : 0 .. MaxSimRate, q : 0 .. MaxSimRate, o : AnyTypes]

\* an omitted numPaths means defaultNumPaths paths: such a call is followed
\* only where it returns before the loop
NumPathsOf(a) ==
    {<< n >> : n \in 0 .. MaxPaths} \cup (IF ValidOptionType(a.o) THEN {} ELSE {<< >>})

InitSim ==
    /\ op = "sim" /\ args \in SimArgs /\ res = NoResult
    /\ ivArgs = NoIvArgs /\ iv = IvFrame
    /\ sim \in {[numPaths |-> np] @@ SimFrame : np \in NumPathsOf(args)}
    /\ par = Idle /\ inv = Idle

NextSim == PriceSimEnter \/ PriceSimPair \/ PriceSimFinish

SpecSim == InitSim /\ [][NextSim]_vars

(***************************************************************************)
(* BSPriceSim (src/sim.go), both revisions.  The main goroutine and the    *)
(* workers it starts are processes; par holds the shared variables sum and *)
(* x, the mutex (its holder, Free when unlocked), the WaitGroup counter    *)
(* and, per worker, its position, its e and the register of a pending      *)
(* sum += ... .  rand.Float64 makes e a free choice.  total and count      *)
(* record what every goroutine set out to add: the two payoffs of its own  *)
(* e.  Money is counted in whole units here.                               *)
(***************************************************************************)
Free == -1
Es == {1, 2}                 \* e = exp(s * z), one value per draw
WorkerIds == 0 .. MaxSimN

\* the goroutines started by the loop: i = 1 .. n-1 (lines 19-31), i = 0 .. n-1 (67-78)
Workers(rev, n) == IF rev = 1 THEN 1 .. n - 1 ELSE 0 .. n - 1

\* Intrinsic(0, x, k, 0, 0, o)
Payoff(x, k, o) == Intrinsic(0, x, k, 0, 0, o)

ParFrame == [pc |-> "call", i |-> 0, mutex |-> Free, wg |-> 0, sum |-> 0, x |-> 0,
             wpc |-> [w \in WorkerIds |-> "new"], e |-> [w \in WorkerIds |-> 0],
             reg |-> [w \in WorkerIds |-> 0], total |-> 0, count |-> 0,
             ret |-> Num(0)]

ParUnchanged == UNCHANGED << op, args, res, ivArgs, iv, sim, inv >>

\* lines 10-18, 56-66: the checks, sum := 0, wg.Add
BSPriceSimEnter ==
    /\ par.pc = "call"
    /\ IF ~ValidOptionType(par.o) \/ par.n = 0
       THEN par' = [par EXCEPT !.pc = "done", !.ret = NaN]
       ELSE par' = [par EXCEPT !.pc = "spawn", !.sum = 0, !.x = par.m,
                               !.wg = IF par.rev = 1 THEN par.n - 1 ELSE par.n,
                               !.i = IF par.rev = 1 THEN 1 ELSE 0]
    /\ ParUnchanged

\* lines 19-20, 67-68: go func(i)
BSPriceSimGo ==
    /\ par.pc = "spawn" /\ par.i < par.n
    /\ par' = [par EXCEPT !.wpc[par.i] = "lock", !.i = par.i + 1]
    /\ ParUnchanged

\* the loop ends; wg.Wait() is next
BSPriceSimSpawned ==
    /\ par.pc = "spawn" /\ par.i >= par.n
    /\ par' = [par EXCEPT !.pc = "wait"]
    /\ ParUnchanged

\* a faulty mu.Lock() that does not wait for the mutex to be free
WorkerLockNoWait(w) ==
    /\ par.wpc[w] = "lock"
    /\ par' = [par EXCEPT !.mutex = w, !.wpc[w] = "draw"]
    /\ ParUnchanged

\* lines 21, 69: mu.Lock()
WorkerLock(w) ==
    /\ par.wpc[w] = "lock" /\ par.mutex = Free
    /\ par' = [par EXCEPT !.mutex = w, !.wpc[w] = "draw"]
    /\ ParUnchanged

\* lines 22-24, 70-71: u, e, x = m * e
WorkerDraw(w) ==
    /\ par.wpc[w] = "draw"
    /\ \E e \in Es :
           par' = [par EXCEPT !.e[w] = e, !.x = par.m * e, !.wpc[w] = "load1",
                       !.total = par.total + Payoff(par.m * e, par.k, par.o)
                                           + Payoff(par.m \div e, par.k, par.o),
                       !.count = par.count + 2]
    /\ ParUnchanged

\* lines 25, 27, 72, 74: sum += Intrinsic(0, x, k, 0, 0, o), the read of sum and x
WorkerLoad(w) ==
    /\ par.wpc[w] \in {"load1", "load2"}
    /\ par' = [par EXCEPT !.reg[w] = par.sum + Payoff(par.x, par.k, par.o),
                          !.wpc[w] = IF par.wpc[w] = "load1" THEN "store1" ELSE "store2"]
    /\ ParUnchanged

\* lines 25, 27, 72, 74: sum += ..., the write of sum
WorkerStore(w) ==
    /\ par.wpc[w] \in {"store1", "store2"}
    /\ par' = [par EXCEPT !.sum = par.reg[w],
                          !.wpc[w] = IF par.wpc[w] = "store1" THEN "div" ELSE "unlock"]
    /\ ParUnchanged

\* lines 26, 73: x = m / e
WorkerDivide(w) ==
    /\ par.wpc[w] = "div"
    /\ par' = [par EXCEPT !.x = par.m \div par.e[w], !.wpc[w] = "load2"]
    /\ ParUnchanged

\* a faulty goroutine that returns without mu.Unlock()
WorkerUnlockKeepsMutex(w) ==
    /\ par.wpc[w] = "unlock"
    /\ par' = [par EXCEPT !.wpc[w] = "release"]
    /\ ParUnchanged

\* lines 28, 75: mu.Unlock()
WorkerUnlock(w) ==
    /\ par.wpc[w] = "unlock"
    /\ par' = [par EXCEPT !.mutex = Free, !.wpc[w] = "release"]
    /\ ParUnchanged

\* lines 29, 76: wg.Done()
WorkerDone(w) ==
    /\ par.wpc[w] = "release"
    /\ par' = [par EXCEPT !.wg = par.wg - 1, !.wpc[w] = "end"]
    /\ ParUnchanged

\* lines 32-41: wg.Wait(), the main goroutine's own pair, the discounted mean
BSPriceSimTail ==
    /\ par.pc = "wait" /\ par.wg = 0 /\ par.rev = 1
    /\ \E e \in Es :
           LET up == Payoff(par.m * e, par.k, par.o)
               down == Payoff(par.m \div e, par.k, par.o)
               sum == par.sum + up + down
           IN  par' = [par EXCEPT !.pc = "done", !.x = par.m \div e, !.sum = sum,
                           !.total = par.total + up + down, !.count = par.count + 2,
                           !.ret = Num((sum \div (2 ^ par.rt)) \div (2 * par.n))]
    /\ ParUnchanged

\* lines 79-81: wg.Wait(), the mean
BSPriceSimMean ==
    /\ par.pc = "wait" /\ par.wg = 0 /\ par.rev = 2
    /\ par' = [par EXCEPT !.pc = "done", !.ret = Num(par.sum \div (2 * par.n))]
    /\ ParUnchanged

\* the calls: the revision of the file, n, the forward m computed at lines 16
\* and 64, the strike k, and r*t in units of ln 2
ParCalls == [rev : {1, 2}, n : 0 .. MaxSimN, m : {4}, k : {3, 5},
             rt : {0, 1}, o : AnyTypes]

InitPar ==
    /\ op = "par" /\ args = NoArgs /\ res = NoResult
    /\ ivArgs = NoIvArgs /\ iv = IvFrame /\ sim = Idle /\ inv = Idle
    /\ par \in {c @@ ParFrame : c \in ParCalls}

NextPar ==
    \/ BSPriceSimEnter \/ BSPriceSimGo \/ BSPriceSimSpawned
    \/ \E w \in WorkerIds :
           \/ WorkerLock(w) \/ WorkerDraw(w) \/ WorkerLoad(w) \/ WorkerStore(w)
           \/ WorkerDivide(w) \/ WorkerUnlock(w) \/ WorkerDone(w)
    \/ BSPriceSimTail \/ BSPriceSimMean

SpecPar == InitPar /\ [][NextPar]_vars

\* the steps of the main goroutine, and those of the goroutine started for i = w
MainSteps ==
    BSPriceSimEnter \/ BSPriceSimGo \/ BSPriceSimSpawned \/ BSPriceSimTail
        \/ BSPriceSimMean

WorkerSteps(w) ==
    WorkerLock(w) \/ WorkerDraw(w) \/ WorkerLoad(w) \/ WorkerStore(w)
        \/ WorkerDivide(w) \/ WorkerUnlock(w) \/ WorkerDone(w)

\* Fair scheduling: a goroutine that can take a step is not passed over for
\* ever.  A goroutine waiting in mu.Lock() can take its step when the mutex is
\* free.  The calls followed are those with one strike and no discounting.
InitParFair ==
    /\ InitPar
    /\ par.k = 3 /\ par.rt = 0

SpecParFair ==
    /\ InitParFair /\ [][NextPar]_vars
    /\ WF_vars(MainSteps)
    /\ \A w \in WorkerIds : WF_vars(WorkerSteps(w))

(***************************************************************************)
(* A call of NormCDFInverse, in either revision.                           *)
(***************************************************************************)
InvFrame == [pc |-> "call", val |-> Num(0), err |-> "none"]

\* src/normal.go
NormCDFInverseCall ==
    /\ inv.pc = "call" /\ inv.rev = "erfinv"
    /\ LET r == NormCDFInverse(inv.num, inv.den)
       IN  inv' = [inv EXCEPT !.pc = "done", !.val = r.val, !.err = r.err]
    /\ UNCHANGED << op, args, res, ivArgs, iv, sim, par >>

\* src/unnamed/part_011
NormCDFInverseQuantileCall ==
    /\ inv.pc = "call" /\ inv.rev = "gonum"
    /\ LET r == NormCDFInverseQuantile(inv.num, inv.den)
       IN  inv' = [inv EXCEPT !.pc = "done", !.val = r.val, !.err = r.err]
    /\ UNCHANGED << op, args, res, ivArgs, iv, sim, par >>

InitInv ==
    /\ op = "inv" /\ args = NoArgs /\ res = NoResult
    /\ ivArgs = NoIvArgs /\ iv = IvFrame /\ sim = Idle /\ par = Idle
    /\ inv \in {c @@ InvFrame :
                  c \in {d \in [rev : {"erfinv", "gonum"}, den : 1 .. MaxQDen,
                                num : -MaxQOut .. MaxQDen + MaxQOut] :
                            d.num <= d.den + MaxQOut}}

NextInv == NormCDFInverseCall \/ NormCDFInverseQuantileCall

SpecInv == InitInv /\ [][NextInv]_vars

(***************************************************************************)
(* Both solvers side by side: a state is a call of one of them.            *)
(***************************************************************************)
InitSearch == InitIV \/ InitPars

NextSearch == NextIV \/ NextPars

SpecSearch == InitSearch /\ [][NextSearch]_vars

(***************************************************************************)
(* The analytic engine as a state machine: a call's arguments are drawn    *)
(* when the state is constructed, one operation is applied to them, and    *)
(* its (value, error) pair is recorded.                                    *)
(***************************************************************************)
Init ==
    /\ op = "none" /\ args \in Args /\ res = NoResult /\ ivArgs = NoIvArgs /\ iv = IvFrame
    /\ sim = Idle /\ par = Idle /\ inv = Idle

DoPrice == op = "none" /\ op' = "Price" /\ res' = PriceOf(args)
    /\ UNCHANGED << args, ivArgs, iv, sim, par, inv >>
DoDelta == op = "none" /\ op' = "Delta" /\ res' = DeltaOf(args)
    /\ UNCHANGED << args, ivArgs, iv, sim, par, inv >>
DoGamma == op = "none" /\ op' = "Gamma" /\ res' = GammaOf(args)
    /\ UNCHANGED << args, ivArgs, iv, sim, par, inv >>
DoTheta == op = "none" /\ op' = "Theta" /\ res' = ThetaOf(args)
    /\ UNCHANGED << args, ivArgs, iv, sim, par, inv >>
DoVega == op = "none" /\ op' = "Vega" /\ res' = VegaOf(args)
    /\ UNCHANGED << args, ivArgs, iv, sim, par, inv >>

Next == DoPrice \/ DoDelta \/ DoGamma \/ DoTheta \/ DoVega

Spec == Init /\ [][Next]_vars

(***************************************************************************)
(* Both machines side by side: a state is either a call of the analytic    *)
(* engine or a call of ImpliedVol.                                         *)
(***************************************************************************)
InitAll == Init \/ InitIV

NextAll == Next \/ NextIV

SpecAll == InitAll /\ [][NextAll]_vars

(***************************************************************************)
(* The exported helpers of blackscholes.go as operations of their own.     *)
(* Those without an error result record a nil error.                       *)
(***************************************************************************)
\* AtmApprox(vol, timeToExpiry, spot, dividendYield, optionType)
AtmApprox(vol, timeToExpiry, spot, dividendYield, optionType) ==
    IF timeToExpiry < 0 THEN [val |-> NaN, err |-> "ErrNegTimeToExp"]
    ELSE IF ~ValidOptionType(optionType) THEN [val |-> NaN, err |-> "ErrUnknownOptionType"]
    ELSE LET sv == MulDiv(MulDiv(Disc(spot, dividendYield, timeToExpiry), vol, VolScale),
                          Sqrt(timeToExpiry), 1000)
             price == MulDiv(sv, PDFKnots[1], NormScale)
         IN  [val |-> Num(IF optionType = Straddle THEN 2 * price ELSE price),
              err |-> "nil"]

Value(v) == [val |-> v, err |-> "nil"]

\* the helper named h applied to the arguments a
HelperOf(h, a) ==
    LET x == a.spot * ONE
        k == a.strike * ONE
    IN  CASE h = "Intrinsic" -> Value(Num(Intrinsic(a.t, x, k, a.r, a.q, a.o)))
          [] h = "AtmApprox" -> AtmApprox(a.vol, a.t, x, a.q, a.o)
          [] h = "PriceZeroSpot" -> Value(PriceZeroSpot(a.t, k, a.r, a.o))
          [] h = "PriceZeroStrike" -> Value(PriceZeroStrike(a.t, x, a.q, a.o))
          [] h = "DeltaZeroSpot" -> Value(DeltaZeroSpot(a.t, a.q, a.o))
          [] h = "DeltaZeroStrike" -> Value(DeltaZeroStrike(a.t, a.q, a.o))
          [] h = "DeltaZeroVol" -> Value(DeltaZeroVol(a.t, x, k, a.r, a.q, a.o))
          [] h = "ThetaZeroSpot" -> Value(ThetaZeroSpot(a.t, k, a.r, a.o))
          [] h = "ThetaZeroStrike" -> Value(ThetaZeroStrike(a.t, x, a.q, a.o))
          [] h = "ThetaZeroVol" -> Value(ThetaZeroVol(a.t, x, k, a.r, a.q, a.o))

ZeroHelpers == {"PriceZeroSpot", "PriceZeroStrike", "DeltaZeroSpot", "DeltaZeroStrike",
                "DeltaZeroVol", "ThetaZeroSpot", "ThetaZeroStrike", "ThetaZeroVol"}
Helpers == {"Intrinsic", "AtmApprox"} \cup ZeroHelpers

DoIntrinsic == op = "none" /\ op' = "Intrinsic" /\ res' = HelperOf("Intrinsic", args)
    /\ UNCHANGED << args, ivArgs, iv, sim, par, inv >>
DoAtmApprox == op = "none" /\ op' = "AtmApprox" /\ res' = HelperOf("AtmApprox", args)
    /\ UNCHANGED << args, ivArgs, iv, sim, par, inv >>
\* the table of ExpNeg holds exp(-n) for n >= 0 only: DeltaZeroStrike is
\* followed for timeToExpiry >= 0
DoZeroHelper ==
    /\ op = "none"
    /\ \E h \in ZeroHelpers :
           /\ h = "DeltaZeroStrike" => args.t >= 0
           /\ op' = h /\ res' = HelperOf(h, args)
    /\ UNCHANGED << args, ivArgs, iv, sim, par, inv >>

InitOps == Init \/ InitSim

NextOps == Next \/ DoIntrinsic \/ DoAtmApprox \/ DoZeroHelper \/ NextSim

SpecOps == InitOps /\ [][NextOps]_vars

(***************************************************************************)
(* Properties of the analytic engine.                                      *)
(***************************************************************************)
AnalyticOps == {"Price", "Delta", "Gamma", "Theta", "Vega"}

\* the validation verdict on the arguments of the recorded call
ArgsCheck == CheckPriceParams(args.t, args.spot * ONE, args.strike * ONE, args.o)

\* the arguments of the recorded call with another option type
WithType(o) == [args EXCEPT !.o = o]

\* C1: Price, Delta, Gamma, Theta, Vega and ImpliedVol called with an option
\* type that is not Call, Put or Straddle return NaN and a non-nil error.
C1_InvalidTypeRejected ==
    /\ (op \in AnalyticOps /\ ~ValidOptionType(args.o))
           => (IsNaN(res.val) /\ res.err \notin {"nil", "none"})
    /\ (iv.pc = "done" /\ ~ValidOptionType(ivArgs.o))
           => (IsNaN(iv.vol) /\ iv.err # "nil")

C1_Witness ==
    /\ op = "Theta" /\ ~ValidOptionType(args.o)
    /\ args.t > 0 /\ args.spot > 0 /\ args.strike > 0 /\ args.vol > 0
    /\ IsNaN(res.val) /\ res.err = "ErrUnknownOptionType"

\* C2: validation looks at the option type, then the time to expiry
\* (ErrNegTimeToExp when negative), then the spot (ErrNegPrice), then the
\* strike (ErrNegStrike); its error is nil exactly when all four are valid,
\* and every operation hands a non-nil validation error back with NaN.
C2_ValidationOrder ==
    op \in AnalyticOps =>
        LET expected ==
                IF args.o \notin {Call, Put, Straddle} THEN "ErrUnknownOptionType"
                ELSE IF args.t < 0 THEN "ErrNegTimeToExp"
                ELSE IF args.spot < 0 THEN "ErrNegPrice"
                ELSE IF args.strike < 0 THEN "ErrNegStrike"
                ELSE "nil"
            allValid == /\ args.o \in {Call, Put, Straddle}
                        /\ args.t >= 0 /\ args.spot >= 0 /\ args.strike >= 0
        IN  /\ ArgsCheck = expected
            /\ (ArgsCheck = "nil") <=> allValid
            /\ ArgsCheck # "nil" => (res.err = ArgsCheck /\ IsNaN(res.val))

C2_Witness ==
    /\ op = "Gamma" /\ ValidOptionType(args.o)
    /\ args.t < 0 /\ args.spot < 0 /\ args.strike < 0
    /\ res.err = "ErrNegTimeToExp" /\ IsNaN(res.val)

\* C3: with valid parameters, a degenerate input (vol = 0, spot = 0,
\* strike = 0 or time to expiry = 0) gives a nil error and a value that is
\* not NaN from Price, Delta, Gamma, Theta and Vega.
C3_DegenerateNoError ==
    (/\ op \in AnalyticOps /\ ArgsCheck = "nil"
     /\ (args.vol = 0 \/ args.spot = 0 \/ args.strike = 0 \/ args.t = 0))
        => (res.err = "nil" /\ ~IsNaN(res.val))

\* C3, as the code behaves: the degenerate inputs give a nil error and a
\* value that is not NaN, except at time to expiry 0 with spot > 0, strike > 0
\* and vol # 0, where Price, Delta and Gamma return NaN and ErrNegTimeToExp.
C3_DegenerateExceptAtExpiry ==
    (/\ op \in AnalyticOps /\ ArgsCheck = "nil"
     /\ (args.vol = 0 \/ args.spot = 0 \/ args.strike = 0 \/ args.t = 0))
        => IF /\ args.t = 0 /\ args.spot > 0 /\ args.strike > 0 /\ args.vol # 0
              /\ op \in {"Price", "Delta", "Gamma"}
           THEN IsNaN(res.val) /\ res.err = "ErrNegTimeToExp"
           ELSE res.err = "nil" /\ ~IsNaN(res.val)

C3_Witness ==
    /\ op = "Price" /\ args.o = Call /\ args.t = 0 /\ args.spot = 1 /\ args.strike = 1
    /\ args.vol = VolStep /\ args.r = 0 /\ args.q = 0
    /\ IsNaN(res.val) /\ res.err = "ErrNegTimeToExp"

\* C4: at vol = 0 on valid input, Price is exactly Intrinsic, for every
\* option type, also when the spot or the strike is zero.
C4_ZeroVolIsIntrinsic ==
    (op = "Price" /\ args.vol = 0 /\ ArgsCheck = "nil")
        => /\ res.err = "nil"
           /\ res.val = Num(Intrinsic(args.t, args.spot * ONE, args.strike * ONE,
                                      args.r, args.q, args.o))

C4_Witness ==
    /\ op = "Price" /\ args.vol = 0 /\ args.spot = 0 /\ args.strike > 0
    /\ args.t > 0 /\ args.r > 0 /\ args.o = Put
    /\ res.err = "nil" /\ IsNum(res.val) /\ res.val.n > 0

\* C5: whenever Price succeeds, Price(Call) - Price(Put) equals
\* spot * exp(-q t) - strike * exp(-r t), on every branch and for negative
\* volatility as well.
C5_PutCallParity ==
    (op = "Price" /\ args.o = Call /\ res.err = "nil")
        => LET put == PriceOf(WithType(Put))
           IN  /\ put.err = "nil" /\ IsNum(res.val) /\ IsNum(put.val)
               /\ res.val.n - put.val.n
                    = Disc(args.spot * ONE, args.q, args.t)
                      - Disc(args.strike * ONE, args.r, args.t)

C5_Witness ==
    /\ op = "Price" /\ args.o = Call /\ res.err = "nil"
    /\ args.vol < 0 /\ args.t > 0 /\ args.spot > 0 /\ args.strike > 0 /\ args.r > 0
    /\ PriceOf(WithType(Put)).val.n > 0

\* C6: whenever Price succeeds, Price(Straddle) = Price(Call) + Price(Put).
C6_StraddleIsCallPlusPut ==
    (op = "Price" /\ args.o = Straddle /\ res.err = "nil")
        => LET call == PriceOf(WithType(Call))
               put == PriceOf(WithType(Put))
           IN  /\ call.err = "nil" /\ put.err = "nil"
               /\ IsNum(res.val) /\ IsNum(call.val) /\ IsNum(put.val)
               /\ res.val.n = call.val.n + put.val.n

C6_Witness ==
    /\ op = "Price" /\ args.o = Straddle /\ res.err = "nil"
    /\ args.vol > 0 /\ args.t > 0 /\ args.spot > 0 /\ args.strike > 0
    /\ PriceOf(WithType(Call)).val.n > 0
    /\ PriceOf(WithType(Put)).val.n > 0

\* C7: for every valid input and every vol,
\* Price(vol) + Price(-vol) = 2 * Price(0).
C7_VolReflection ==
    (op = "Price" /\ ArgsCheck = "nil")
        => LET neg == PriceOf([args EXCEPT !.vol = -args.vol])
               zero == PriceOf([args EXCEPT !.vol = 0])
           IN  /\ IsNum(res.val) /\ IsNum(neg.val) /\ IsNum(zero.val)
               /\ res.val.n + neg.val.n = 2 * zero.val.n

C7_Witness ==
    /\ op = "Price" /\ ArgsCheck = "nil" /\ args.t = 0 /\ args.vol # 0
    /\ args.spot > 0 /\ args.strike > 0 /\ IsNaN(res.val)

\* C7, away from expiry: the reflection identity holds whenever the time to
\* expiry is positive.
C7_VolReflectionBeforeExpiry ==
    (op = "Price" /\ ArgsCheck = "nil" /\ args.t > 0)
        => LET neg == PriceOf([args EXCEPT !.vol = -args.vol])
               zero == PriceOf([args EXCEPT !.vol = 0])
           IN  /\ IsNum(res.val) /\ IsNum(neg.val) /\ IsNum(zero.val)
               /\ res.val.n + neg.val.n = 2 * zero.val.n

(***************************************************************************)
(* Properties of ImpliedVol.                                               *)
(***************************************************************************)
\* the recorded call has ended
IvDone == iv.pc = "done"

IvArgsCheck ==
    CheckPriceParams(ivArgs.t, ivArgs.spot * ONE, ivArgs.strike * ONE, ivArgs.o)

\* a round trip with the default configuration: the premium is the Price of
\* a volatility sigma in (0, 2), with time to expiry, spot and strike positive
RoundTrip ==
    /\ IvDone /\ ivArgs.params = << >> /\ IvArgsCheck = "nil"
    /\ ivArgs.sigma > 0 /\ ivArgs.sigma < 2 * VolScale
    /\ ivArgs.t > 0 /\ ivArgs.spot > 0 /\ ivArgs.strike > 0

Recovered ==
    /\ iv.err = "nil" /\ IsNum(iv.vol)
    /\ Abs(iv.vol.n - ivArgs.sigma) <= defaultTolerance

\* the volatilities the default search can reach while sigma lies in (0, 2)
SearchLow == defaultLowerBound - 5 * boundIncrement
SearchHigh == defaultUpperBound + 5 * boundIncrement

\* the premium tells sigma apart: every lower volatility of the search range
\* is priced below it and every higher volatility above it
Separates ==
    \A v \in SearchLow .. SearchHigh :
        /\ v < ivArgs.sigma => PriceAt(v, ivArgs).val.n < ivArgs.premium
        /\ v > ivArgs.sigma => PriceAt(v, ivArgs).val.n > ivArgs.premium

\* C8: for time to expiry > 0, spot > 0, strike > 0 and vol in (0, 2),
\* ImpliedVol of Price(vol) with the default configuration returns a nil
\* error and a volatility within the tolerance of vol.
C8_RoundTrip == RoundTrip => Recovered

\* C8, amended: the round trip returns a nil error and a volatility within the
\* tolerance of vol provided the premium tells vol apart, that is Price is
\* below the premium at every lower volatility of the search range and above
\* it at every higher one; a premium equal to the intrinsic value returns 0.
C8_RoundTripWhenSeparated ==
    RoundTrip =>
        /\ Recovered \/ ~Separates
        /\ iv.extrinsic = 0 /\ iv.it = 0 => (iv.vol = Num(0) /\ iv.err = "nil")

C8_Witness ==
    /\ RoundTrip /\ Recovered /\ iv.it > 3 /\ iv.extrinsic > 0
    /\ ivArgs.sigma = VolScale \div 5 /\ ivArgs.r > 0
    /\ Separates

\* C9: ImpliedVol returns volatility 0 and a nil error, without searching,
\* whenever the parameters are valid and the time to expiry, the spot or the
\* strike is zero, whatever the premium.
C9_DegenerateReturnsZero ==
    (/\ IvDone /\ IvArgsCheck = "nil"
     /\ (ivArgs.t = 0 \/ ivArgs.spot = 0 \/ ivArgs.strike = 0))
        => (iv.vol = Num(0) /\ iv.err = "nil" /\ iv.it = 0)

C9_Witness ==
    /\ IvDone /\ IvArgsCheck = "nil"
    /\ ivArgs.t = 0 /\ ivArgs.spot > 0 /\ ivArgs.strike > 0
    /\ IsNaN(iv.vol) /\ iv.err = "ErrNegTimeToExp"

\* C10: ImpliedVol never returns NaN together with a nil error, also when the
\* lower bound is not below the upper bound or the tolerance is at least the
\* width of the bracket.
C10_NoNaNWithoutError == IvDone => ~(IsNaN(iv.vol) /\ iv.err = "nil")

C10_Witness ==
    /\ IvDone /\ IsNaN(iv.vol) /\ iv.err = "nil"
    /\ iv.it = 0 /\ ~(iv.ub - iv.lb > iv.tol)

\* the field of the search configuration the call supplied, or else a default
Configured(name, default) ==
    IF Len(ivArgs.params) > 0 THEN Field(ivArgs.params[1], name, default) ELSE default

\* the search configuration is in place and no bound has been moved yet
SearchConfigured == iv.pc = "adjust" /\ iv.it = 0

\* C11: without a search configuration ImpliedVol starts with lower bound
\* 0.01, upper bound 1.99, tolerance 2^-30 and iteration cap 1000000; a
\* supplied field replaces that field only.
C11_DefaultSearchConfig ==
    SearchConfigured =>
        /\ iv.lb = Configured("LowerBound", VolScale \div 100)
        /\ iv.ub = Configured("UpperBound", (199 * VolScale) \div 100)
        /\ iv.tol = Configured("Tolerance", defaultTolerance)
        /\ iv.maxit = Configured("MaxIterations", 1000000)

\* C11, as the code behaves: the search starts with lower bound 1.99 and
\* upper bound 0.01, the other two defaults being as stated; a supplied field
\* replaces that field only.
C11_DefaultsSwapped ==
    SearchConfigured =>
        /\ iv.lb = Configured("LowerBound", (199 * VolScale) \div 100)
        /\ iv.ub = Configured("UpperBound", VolScale \div 100)
        /\ iv.tol = Configured("Tolerance", defaultTolerance)
        /\ iv.maxit = Configured("MaxIterations", 1000000)

C11_Witness ==
    /\ SearchConfigured /\ ivArgs.params = << >>
    /\ iv.lb = (199 * VolScale) \div 100 /\ iv.ub = VolScale \div 100
    /\ iv.lb > iv.ub

(***************************************************************************)
(* Properties of ImpliedVol(pars *ImpliedVolParams).                       *)
(***************************************************************************)
ParsDone == op = "pars" /\ iv.pc = "done"

\* a loop that moves a bound has used up its iterations
ExpansionUsedUp ==
    op = "pars" /\ iv.pc \in {"lower", "upper"} /\ ~(iv.it < iv.maxit)

\* C12: when the bracket expansion uses up maxIterations without bracketing
\* the premium, ImpliedVol returns NaN and a bounds-not-found error, and the
\* bound and the price that error reports are the last bound tried and the
\* price at that same bound.
C12_BoundsNotFoundReportsLastTried ==
    /\ ExpansionUsedUp =>
          IF iv.pc = "lower" THEN ivArgs.premium < iv.plo ELSE iv.phi < ivArgs.premium
    /\ (ParsDone /\ iv.err = "BoundsNotFound") =>
          (IsNaN(iv.vol) /\ iv.errPrice = ParsPriceAt(iv.errBound))

\* C12, as the code behaves: the error and the NaN are as stated, but the
\* bound reported is one step beyond the last bound tried, and the price
\* reported is the price at the last bound tried.
C12_BoundsNotFoundReportsNextBound ==
    /\ ExpansionUsedUp =>
          IF iv.pc = "lower" THEN ivArgs.premium < iv.plo ELSE iv.phi < ivArgs.premium
    /\ (ParsDone /\ iv.err = "BoundsNotFound") =>
          /\ IsNaN(iv.vol)
          /\ iv.errPrice = IF ivArgs.premium < iv.errPrice
                              THEN ParsPriceAt(iv.errBound + BoundStep)
                              ELSE ParsPriceAt(iv.errBound - BoundStep)

C12_Witness ==
    /\ ParsDone /\ iv.err = "BoundsNotFound" /\ IsNaN(iv.vol)
    /\ ivArgs.premium < iv.errPrice /\ iv.it = iv.maxit
    /\ iv.errPrice # ParsPriceAt(iv.errBound)
    /\ iv.errPrice = ParsPriceAt(iv.errBound + BoundStep)

\* the bisection has used up its iterations without converging
BisectionUsedUp ==
    \/ op = "pars" /\ iv.pc = "bisection" /\ ~(iv.it < iv.maxit)
    \/ op = "off" /\ iv.pc = "bisect" /\ iv.ub - iv.lb > iv.tol /\ iv.it > iv.maxit

\* the bisection returns a volatility with a nil error
BisectionSucceeds ==
    /\ iv.pc \in {"bisection", "bisect"} /\ iv'.pc = "done"
    /\ iv'.err = "nil" /\ IsNum(iv'.vol)

\* C13: when the bisection uses up maxIterations without reaching
\* ub - lb < tolerance or an exact price match, ImpliedVol returns NaN and a
\* non-nil error; a midpoint is returned only from a converged bracket or an
\* exact match, never as the last midpoint of a search that ran out.
C13_NoUnconvergedMidpoint ==
    [][/\ BisectionUsedUp => (iv'.pc = "done" /\ IsNaN(iv'.vol) /\ iv'.err # "nil")
       /\ BisectionSucceeds =>
            IF op = "pars"
            THEN /\ iv.it < iv.maxit
                 /\ iv.ub - iv.lb < iv.tol \/ iv'.pmid = ivArgs.premium
            ELSE ~(iv.ub - iv.lb > iv.tol)]_vars

C13_Witness ==
    /\ ParsDone /\ iv.err = "NonConvergence" /\ IsNaN(iv.vol)
    /\ iv.it = iv.maxit /\ iv.it > 1 /\ iv.ub - iv.lb >= iv.tol
    /\ iv.pmid # ivArgs.premium

\* a solver has returned a volatility with a nil error
SearchSucceeded == iv.pc = "done" /\ iv.err = "nil" /\ IsNum(iv.vol)

\* the extrinsic value of the premium of the call
Extrinsic ==
    ivArgs.premium - Intrinsic(ivArgs.t, ivArgs.spot * ONE, ivArgs.strike * ONE,
                               ivArgs.r, ivArgs.q, ivArgs.o)

\* C14: on every successful return of ImpliedVol the sign of the volatility
\* agrees with the sign of premium - Intrinsic: a negative extrinsic value
\* never comes with a positive volatility, nor a positive one with a negative
\* volatility.
C14_SignAgreesWithExtrinsic ==
    SearchSucceeded =>
        /\ ~(Extrinsic < 0 /\ iv.vol.n > 0)
        /\ ~(Extrinsic > 0 /\ iv.vol.n < 0)

\* C14, as the code behaves: the positional solver gives the volatility the
\* sign of premium - Intrinsic; the solver taking *ImpliedVolParams gives it
\* the sign of the last midpoint price minus the intrinsic value.
C14_SignAsCorrected ==
    SearchSucceeded =>
        LET e == IF op = "pars" THEN iv.pmid - iv.intrval ELSE Extrinsic
        IN  /\ ~(e < 0 /\ iv.vol.n > 0)
            /\ ~(e > 0 /\ iv.vol.n < 0)

C14_Witness ==
    /\ op = "pars" /\ SearchSucceeded /\ iv.it > 1
    /\ Extrinsic > 0 /\ iv.vol.n < 0
    /\ iv.pmid < iv.intrval
    /\ ivArgs.sigma > 0 /\ ivArgs.t = 1 /\ ivArgs.spot = 1 /\ ivArgs.strike = 1
    /\ ivArgs.r = 0 /\ ivArgs.q = 0 /\ ivArgs.o = Call


(***************************************************************************)
(* PriceSim                                                                *)
(***************************************************************************)
SimDone == op = "sim" /\ sim.pc = "done"
ZeroPaths == sim.numPaths = << 0 >>
ZeroPathsRejected ==
    IsNaN(sim.price) /\ sim.err \notin {"nil", "none"} /\ sim.draws = << >> /\ sim.i = 0
UnknownTypeRejected == IsNaN(sim.price) /\ sim.err = "ErrUnknownOptionType"

\* C15 as stated: PriceSim called with numPaths = 0 returns NaN with a non-nil
\* error and evaluates no path; called with an option type outside {Call, Put,
\* Straddle} it returns NaN with ErrUnknownOptionType.
C15_ZeroPathsAndUnknownType ==
    SimDone =>
        /\ (ZeroPaths => ZeroPathsRejected)
        /\ (~ValidOptionType(args.o) => UnknownTypeRejected)

\* C15 amended: PriceSim called with numPaths = 0 returns NaN with a non-nil
\* error and evaluates no path; called with a path count other than 0, or with
\* none, and an option type outside {Call, Put, Straddle} it returns NaN with
\* ErrUnknownOptionType.
C15_ZeroPathsThenUnknownType ==
    SimDone =>
        /\ (ZeroPaths => ZeroPathsRejected)
        /\ ((~ZeroPaths /\ ~ValidOptionType(args.o)) => UnknownTypeRejected)

C15_Witness ==
    \/ SimDone /\ ZeroPaths /\ ZeroPathsRejected /\ ValidOptionType(args.o) /\ args.t > 0
    \/ SimDone /\ ~ZeroPaths /\ ~ValidOptionType(args.o) /\ UnknownTypeRejected


SimPriced == SimDone /\ sim.err = "nil"

\* the payoff of one path, computed from its deviate alone
PayoffAt(z) ==
    PathPayoff(Disc(args.spot * ONE, args.q - args.r, args.t),
               SimMu(SimSigma(args.vol, args.t)), SimSigma(args.vol, args.t),
               1, z, args.strike * ONE, args.o)

RECURSIVE PayoffTotal(_)
PayoffTotal(zs) ==
    IF zs = << >> THEN Num(0) ELSE FAdd(PayoffAt(Head(zs)), PayoffTotal(Tail(zs)))

DiscountedMean(total, count) ==
    IF IsNaN(total) THEN NaN ELSE Num(Disc(total.n, args.r, args.t) \div count)

\* C16: for every numPaths >= 1, PriceSim sums exactly numPaths terminal
\* payoffs: floor(numPaths/2) antithetic pairs, each evaluated at +Z and -Z of
\* the same draw, plus one unpaired path at Z = 0 exactly when numPaths is odd;
\* the discount factor is applied once to the sum, which is divided by the
\* number of payoffs summed.
C16_AntitheticPathCount ==
    SimPriced =>
        LET n == sim.numPaths[1]
            pairs == n \div 2
        IN  /\ n >= 1
            /\ Len(sim.draws) = n
            /\ \A j \in 1 .. pairs :
                   /\ sim.draws[2 * j - 1] = NormCDFInverseQuantile(2 * j - 1, n).val.n
                   /\ sim.draws[2 * j] = -sim.draws[2 * j - 1]
            /\ Len(sim.draws) - 2 * pairs = n % 2
            /\ (n % 2 = 1 => sim.draws[n] = 0)
            /\ sim.sum = PayoffTotal(sim.draws)
            /\ sim.price = DiscountedMean(PayoffTotal(sim.draws), Len(sim.draws))

C16_Witness ==
    /\ SimPriced /\ sim.numPaths = << 3 >> /\ Len(sim.draws) = 3
    /\ sim.draws[1] < 0 /\ sim.draws[2] > 0 /\ sim.draws[3] = 0
    /\ args.vol > 0 /\ args.t > 0 /\ args.r > 0 /\ args.o = Call
    /\ IsNum(sim.price) /\ sim.price.n > 0


NegativeInput == args.t < 0 \/ args.spot < 0 \/ args.strike < 0
SimArgsCheck == CheckPriceParams(args.t, args.spot * ONE, args.strike * ONE, args.o)
PriceOfSimArgs ==
    Price(args.vol, args.t, args.spot * ONE, args.strike * ONE, args.r, args.q, args.o)

\* C17 as stated: PriceSim applies the shared parameter validation: called with
\* a negative timeToExpiry, a negative spot or a negative strike it returns NaN
\* with a non-nil error, as Price does for the same inputs.
C17_SharedValidation ==
    (SimDone /\ NegativeInput) =>
        /\ IsNaN(sim.price) /\ sim.err \notin {"nil", "none"}
        /\ IsNaN(PriceOfSimArgs.val) /\ PriceOfSimArgs.err # "nil"

\* C17, what PriceSim does: with a valid option type and a path count of at
\* least one, a negative input is never reported; the price is NaN for a
\* negative timeToExpiry and a number for a negative spot or strike, while
\* Price rejects the same inputs.
C17_NegativeInputUnchecked ==
    (SimDone /\ NegativeInput /\ ValidOptionType(args.o) /\ ~ZeroPaths) =>
        /\ sim.err = "nil"
        /\ IsNaN(sim.price) <=> args.t < 0
        /\ IsNaN(PriceOfSimArgs.val) /\ PriceOfSimArgs.err = SimArgsCheck
        /\ SimArgsCheck \in {"ErrNegTimeToExp", "ErrNegPrice", "ErrNegStrike"}

C17_Witness ==
    /\ SimDone /\ args.spot < 0 /\ args.t > 0 /\ args.strike > 0 /\ args.o = Put
    /\ sim.err = "nil" /\ IsNum(sim.price) /\ sim.price.n > args.strike * ONE
    /\ PriceOfSimArgs.err = "ErrNegPrice"


(***************************************************************************)
(* BSPriceSim                                                              *)
(***************************************************************************)
\* worker w is between its mu.Lock() and its mu.Unlock()
InCritical(w) ==
    par.wpc[w] \in {"draw", "load1", "store1", "div", "load2", "store2", "unlock"}
ParStarted == op = "par" /\ par.pc \in {"spawn", "wait", "done"} /\ ~IsNaN(par.ret)
ParReturned == ParStarted /\ par.pc = "done"

\* C18: in the goroutine-based BSPriceSim, under every interleaving of the
\* worker goroutines, each worker's two additions to the shared sum and its
\* writes to the shared spot variable happen while it holds the mutex, and the
\* main goroutine touches the sum only after all workers have finished; the
\* final sum therefore equals the total of all 2n payoffs.
C18_SumUnderMutex ==
    /\ ParStarted => \A w \in WorkerIds : InCritical(w) => par.mutex = w
    /\ ParReturned => \A w \in Workers(par.rev, par.n) : par.wpc[w] = "end"
    /\ ParReturned => (par.sum = par.total /\ par.count = 2 * par.n)

C18_Witness ==
    /\ ParReturned /\ par.rev = 1 /\ par.n = 3 /\ par.o = Call /\ par.k = 3
    /\ par.e[1] # par.e[2] /\ par.sum = par.total /\ par.count = 6 /\ par.sum > 6


(***************************************************************************)
(* NormCDFInverse                                                          *)
(***************************************************************************)
InvDone == op = "inv" /\ inv.pc = "done"
OutOfRange == inv.num < 0 \/ inv.num > inv.den
ReportsOutOfRange ==
    /\ OutOfRange => (IsNaN(inv.val) /\ inv.err \notin {"nil", "none", "panic"})
    /\ ~OutOfRange => (inv.err = "nil" /\ ~IsNaN(inv.val))

\* C20 as stated: NormCDFInverse(q) returns NaN with a non-nil error exactly
\* when q < 0 or q > 1; for every q with 0 <= q <= 1 (endpoints included) it
\* returns a nil error.
C20_OutOfRangeReported == InvDone => ReportsOutOfRange

\* C20, what the code does: the NormCDFInverse of normal.go reports exactly the
\* q outside [0, 1]; the one built on gonum returns a value for every q in
\* [0, 1] and has no error to return outside it.
C20_OutOfRangeReportedByErfinv ==
    InvDone =>
        /\ inv.rev = "erfinv" => ReportsOutOfRange
        /\ inv.rev = "gonum" => (IF OutOfRange THEN inv.err = "panic"
                                 ELSE inv.err = "nil" /\ ~IsNaN(inv.val))

C20_Witness ==
    InvDone /\ inv.rev = "gonum" /\ inv.num = -1 /\ inv.den = 2 /\ inv.err = "panic"


(***************************************************************************)
(* The option type in every operation                                      *)
(***************************************************************************)
ReportsFailure(r) == IsNaN(r.val) \/ r.err \notin {"nil", "none"}

\* C21 as stated: every public operation that receives an OptionType outside
\* {Call, Put, Straddle} reports failure (a non-nil error or NaN) and none
\* computes a result as if the value were one of the valid types; this covers
\* Intrinsic, AtmApprox, PriceSim and the zero-spot, zero-strike and zero-vol
\* helper functions as well as Price and the Greeks.
C21_UnknownTypeAlwaysFails ==
    /\ (op \in AnalyticOps \cup Helpers /\ ~ValidOptionType(args.o)) => ReportsFailure(res)
    /\ (SimDone /\ ~ValidOptionType(args.o))
           => ReportsFailure([val |-> sim.price, err |-> sim.err])

\* C21, what the code does: every operation but Intrinsic reports the failure;
\* Intrinsic returns, with nothing to report an error in, the value it returns
\* for a Straddle.
C21_UnknownTypeFailsButIntrinsic ==
    /\ (op \in (AnalyticOps \cup Helpers) \ {"Intrinsic"} /\ ~ValidOptionType(args.o))
           => ReportsFailure(res)
    /\ (SimDone /\ ~ValidOptionType(args.o))
           => ReportsFailure([val |-> sim.price, err |-> sim.err])
    /\ (op = "Intrinsic" /\ ~ValidOptionType(args.o))
           => res = HelperOf("Intrinsic", WithType(Straddle))

C21_Witness ==
    /\ op = "Intrinsic" /\ ~ValidOptionType(args.o)
    /\ args.t = 1 /\ args.spot = 2 /\ args.strike = 1 /\ args.r = 0 /\ args.q = 0
    /\ res = Value(Num(ONE))


(***************************************************************************)
(* Degenerate branches of Price and Theta                                  *)
(***************************************************************************)
\* C22: dispatch priority in Price: for valid inputs with spot = 0, Price
\* returns 0 for Call and strike*exp(-interestRate*timeToExpiry) for Put and
\* Straddle whatever vol, strike and timeToExpiry are; with spot > 0 and
\* strike = 0 it returns 0 for Put and spot*exp(-dividendYield*timeToExpiry)
\* for Call and Straddle whatever vol is; the zero-vol branch is reached only
\* when spot > 0 and strike > 0.
C22_PriceDispatchPriority ==
    (op = "Price" /\ ArgsCheck = "nil") =>
        LET branch == PriceBranch(args.vol, args.spot * ONE, args.strike * ONE)
        IN  /\ args.spot = 0 =>
                /\ branch = "zero-spot"
                /\ res = Value(IF args.o = Call THEN Num(0)
                               ELSE Num(Disc(args.strike * ONE, args.r, args.t)))
            /\ (args.spot > 0 /\ args.strike = 0) =>
                /\ branch = "zero-strike"
                /\ res = Value(IF args.o = Put THEN Num(0)
                               ELSE Num(Disc(args.spot * ONE, args.q, args.t)))
            /\ branch = "zero-vol" => (args.spot > 0 /\ args.strike > 0)

C22_Witness ==
    /\ op = "Price" /\ ArgsCheck = "nil" /\ args.spot = 0 /\ args.vol = 0
    /\ args.strike = 2 /\ args.t = 1 /\ args.r = 1 /\ args.o = Straddle
    /\ res = Value(Num(ONE))


\* the closed form of the branch Theta takes before it looks at the time
ThetaClosedForm(a) ==
    IF a.spot = 0 THEN ThetaZeroSpot(a.t, a.strike * ONE, a.r, a.o)
    ELSE IF a.strike = 0 THEN ThetaZeroStrike(a.t, a.spot * ONE, a.q, a.o)
    ELSE ThetaZeroVol(a.t, a.spot * ONE, a.strike * ONE, a.r, a.q, a.o)

\* C23: Theta returns negative infinity with a nil error exactly when the
\* inputs are valid and timeToExpiry = 0, spot > 0, strike > 0 and vol != 0;
\* when timeToExpiry = 0 together with spot = 0, strike = 0 or vol = 0 the
\* earlier branch's finite closed form is returned instead.
C23_ThetaAtExpiry ==
    op = "Theta" =>
        LET atExpiry == /\ ArgsCheck = "nil" /\ args.t = 0 /\ args.spot > 0
                        /\ args.strike > 0 /\ args.vol # 0
        IN  /\ (res.val = Inf(-1) /\ res.err = "nil") <=> atExpiry
            /\ res.val = Inf(-1) => res.err = "nil"
            /\ (/\ ArgsCheck = "nil" /\ args.t = 0
                /\ (args.spot = 0 \/ args.strike = 0 \/ args.vol = 0))
                   => (IsNum(res.val) /\ res = Value(ThetaClosedForm(args)))

C23_Witness ==
    /\ op = "Theta" /\ ArgsCheck = "nil" /\ args.t = 0 /\ args.spot = 1
    /\ args.strike = 2 /\ args.vol < 0 /\ args.r > 0 /\ res = Value(Inf(-1))


(***************************************************************************)
(* Relations between the Greeks                                            *)
(***************************************************************************)
Greeks == {"Delta", "Gamma", "Theta", "Vega"}

\* the Greek named g at the arguments a
GreekOf(g, a) ==
    CASE g = "Delta" -> DeltaOf(a)
      [] g = "Gamma" -> GammaOf(a)
      [] g = "Theta" -> ThetaOf(a)
      [] g = "Vega" -> VegaOf(a)

\* float64 addition and subtraction with infinities
FloatSum(a, b) ==
    IF IsNaN(a) \/ IsNaN(b) THEN NaN
    ELSE IF a.k = "inf" /\ b.k = "inf" THEN (IF a.n = b.n THEN a ELSE NaN)
    ELSE IF a.k = "inf" THEN a
    ELSE IF b.k = "inf" THEN b
    ELSE Num(a.n + b.n)
FloatNeg(a) == IF IsNaN(a) THEN NaN ELSE [a EXCEPT !.n = -a.n]

\* equality of floats up to the rounding of the model's integer divisions
\* (two units of the last place)
Near(a, b) ==
    IF IsNum(a) /\ IsNum(b) THEN Abs(a.n - b.n) <= 2 ELSE (a = b /\ ~IsNaN(a))

StraddleDecomposes(g) ==
    LET call == GreekOf(g, WithType(Call))
        put == GreekOf(g, WithType(Put))
    IN  /\ call.err = "nil" /\ put.err = "nil"
        /\ Near(res.val, FloatSum(call.val, put.val))

\* C24 as stated: for each Greek G among Delta, Gamma, Theta and Vega and every
\* valid input on which G succeeds, G(Straddle) = G(Call) + G(Put), in the
\* general branch for every timeToExpiry > 0 and in every degenerate branch,
\* including vol = 0 with the discounted spot equal to the discounted strike.
C24_GreeksOfStraddle ==
    (op \in Greeks /\ args.o = Straddle /\ res.err = "nil") => StraddleDecomposes(op)

\* C24, what the code does: the decomposition holds for Delta, Gamma and Vega
\* everywhere and for Theta in every degenerate branch and at
\* timeToExpiry = 1; in the general branch of Theta at another timeToExpiry
\* the put's decay term is multiplied by sqrt(timeToExpiry) where the call's
\* and the straddle's are divided by it.
C24_GreeksOfStraddleButTheta ==
    (op \in Greeks /\ args.o = Straddle /\ res.err = "nil") =>
        \/ StraddleDecomposes(op)
        \/ /\ op = "Theta" /\ args.t > 1
           /\ ThetaBranch(args.vol, args.t, args.spot * ONE, args.strike * ONE) = "general"

C24_Witness ==
    /\ op = "Theta" /\ args.o = Straddle /\ res.err = "nil"
    /\ args.t = 2 /\ args.vol = VolStep /\ args.spot = 1 /\ args.strike = 1
    /\ args.r = 0 /\ args.q = 0
    /\ ~StraddleDecomposes("Theta")


\* f(-vol) = 2*f(0) - f(vol) for the Greek of the recorded call
ReflectsAboutZeroVol(g) ==
    LET neg == GreekOf(g, [args EXCEPT !.vol = -args.vol])
        zero == GreekOf(g, [args EXCEPT !.vol = 0])
    IN  /\ neg.err = "nil" /\ zero.err = "nil" /\ res.err = "nil"
        /\ neg.val = FloatSum(FloatSum(zero.val, zero.val), FloatNeg(res.val))

Reflected ==
    /\ op \in {"Gamma", "Theta"} /\ ArgsCheck = "nil"
    /\ args.t > 0 /\ args.spot > 0 /\ args.strike > 0 /\ args.vol > 0

\* C25 as stated: for each f among Gamma and Theta, every option type and
\* every valid input with timeToExpiry > 0, spot > 0, strike > 0 and vol > 0,
\* f(-vol) = 2*f(0) - f(vol), where f(0) is the value the same function returns
\* at vol = 0 for the same spot, strike, rates and time (for arbitrary non-zero
\* interestRate and dividendYield).
C25_GammaThetaReflection == Reflected => ReflectsAboutZeroVol(op)

\* C25, what the code does: Gamma reflects about its value at vol = 0; Theta
\* reflects about ThetaZeroVol of the spot and strike it has already
\* discounted, which is Theta at vol = 0 when both rates are zero.
C25_ThetaReflectsDiscountedTwice ==
    Reflected =>
        /\ op = "Gamma" => ReflectsAboutZeroVol(op)
        /\ (op = "Theta" /\ args.r = 0 /\ args.q = 0) => ReflectsAboutZeroVol(op)
        /\ op = "Theta" =>
               LET neg == ThetaOf([args EXCEPT !.vol = -args.vol])
                   twice == ThetaZeroVol(args.t, Disc(args.spot * ONE, args.q, args.t),
                                         Disc(args.strike * ONE, args.r, args.t),
                                         args.r, args.q, args.o)
               IN  neg.val = FloatSum(FloatSum(twice, twice), FloatNeg(res.val))

C25_Witness ==
    /\ Reflected /\ op = "Theta" /\ args.o = Call /\ args.t = 1 /\ args.spot = 2
    /\ args.strike = 1 /\ args.r = 1 /\ args.q = 0 /\ args.vol = VolStep
    /\ ~ReflectsAboutZeroVol("Theta")


(***************************************************************************)
(* The zero-volatility delta                                               *)
(***************************************************************************)
\* steps of the finite difference, in money units
EpsSteps == {ONE \div 4, ONE \div 2, ONE}

\* Price(0, ...) of the recorded call at another spot, in money units
ZeroVolPriceAt(spot) == Price(0, args.t, spot, args.strike * ONE, args.r, args.q, args.o)

DiscountedSpot(spot) == Disc(spot, args.q, args.t)
DiscountedStrike == Disc(args.strike * ONE, args.r, args.t)
AtKink == DiscountedSpot(args.spot * ONE) = DiscountedStrike
StraddlesKink(eps) ==
    /\ DiscountedSpot(args.spot * ONE - eps) < DiscountedStrike
    /\ DiscountedStrike < DiscountedSpot(args.spot * ONE + eps)

\* delta = (Price(0, spot+eps) - Price(0, spot-eps)) / (2*eps), delta in units
\* of 1/NormScale and eps a multiple of NormScale
IsCentralDifference(delta, eps) ==
    LET up == ZeroVolPriceAt(args.spot * ONE + eps)
        down == ZeroVolPriceAt(args.spot * ONE - eps)
    IN  /\ up.err = "nil" /\ down.err = "nil" /\ IsNum(delta)
        /\ delta.n * 2 * (eps \div NormScale) = up.val.n - down.val.n

ZeroVolDeltaCall ==
    /\ op = "DeltaZeroVol" /\ ArgsCheck = "nil" /\ args.spot > 0 /\ args.strike > 0

\* C26: the zero-volatility delta equals the central finite difference of the
\* zero-volatility price in spot: for valid inputs with spot > 0, strike > 0
\* and every step eps with 0 < eps <= spot that does not straddle the kink,
\* DeltaZeroVol = (Price(0, spot+eps) - Price(0, spot-eps)) / (2*eps); exactly
\* at the kink it returns +0.5*exp(-dividendYield*timeToExpiry) for Call,
\* -0.5*exp(-dividendYield*timeToExpiry) for Put and 0 for Straddle, which is
\* that central difference for every such eps.
C26_ZeroVolDeltaIsCentralDifference ==
    ZeroVolDeltaCall =>
        LET dfq == Disc(NormScale, args.q, args.t)
        IN  /\ \A eps \in EpsSteps :
                   (eps <= args.spot * ONE /\ (AtKink \/ ~StraddlesKink(eps)))
                       => IsCentralDifference(res.val, eps)
            /\ AtKink => res.val = Num(CASE args.o = Call -> dfq \div 2
                                         [] args.o = Put -> -(dfq \div 2)
                                         [] args.o = Straddle -> 0)

C26_Witness ==
    /\ ZeroVolDeltaCall /\ AtKink /\ args.o = Put /\ args.spot = 2 /\ args.strike = 1
    /\ args.t = 1 /\ args.q = 1 /\ args.r = 0
    /\ res.val = Num(-(NormScale \div 4))
    /\ IsCentralDifference(res.val, 2 * ONE)


\* the bisection loop of either solver is about to test its condition
InBisection ==
    \/ op = "off" /\ iv.pc = "bisect"
    \/ op = "pars" /\ iv.pc = "bisection"

\* the price either solver computes at a volatility v of the bracket
BracketPrice(v) ==
    IF op = "pars" THEN ParsPriceAt(v) ELSE PriceAt(v, ivArgs).val.n

BracketOrdered == iv.lb <= iv.ub

BracketHoldsPremium ==
    /\ BracketPrice(iv.lb) <= ivArgs.premium
    /\ ivArgs.premium <= BracketPrice(iv.ub)

\* a bisection step that does not return
BisectionStep == InBisection /\ iv'.pc = iv.pc

\* the width after a step is half the width before it, on the grid
WidthHalved ==
    LET w == iv.ub - iv.lb
    IN  iv'.ub - iv'.lb \in {w \div 2, w - w \div 2}

\* the bisection hands a volatility to the sign correction and returns
BisectionReturns == InBisection /\ iv'.pc = "done" /\ iv'.err = "nil"

\* the volatility returned is the sign correction of a point of the bracket
MidpointInBracket ==
    \E m \in iv.lb .. iv.ub :
        iv'.vol = IF op = "pars"
                  THEN Num(CorrectVolSignPtr(iv'.pmid - iv.intrval, m))
                  ELSE CorrectVolSign(iv.extrinsic, Num(m))

\* C27: whenever bisection starts and after every bisection step,
\* lb <= ub and Price(lb) <= premium <= Price(ub); every step that does not
\* return halves ub - lb; the midpoint handed to the sign correction lies in
\* the bracket of the last step.
C27_BracketInvariant ==
    [][/\ InBisection => (BracketOrdered /\ BracketHoldsPremium)
       /\ BisectionStep => WidthHalved
       /\ BisectionReturns => MidpointInBracket]_vars


\* C27, as the code behaves: the bracket is ordered, holds the premium and
\* is halved by every step, and the volatility handed to the sign correction
\* lies in the bracket once a bisection step has assigned it; the positional
\* solver hands over NaN when its loop runs no step.
C27_BracketInvariantAfterStep ==
    [][/\ InBisection => (BracketOrdered /\ BracketHoldsPremium)
       /\ BisectionStep => WidthHalved
       /\ (BisectionReturns /\ (op = "pars" \/ IsNum(iv.vol))) => MidpointInBracket
       /\ (BisectionReturns /\ op = "off" /\ IsNaN(iv.vol)) =>
             IsNaN(iv'.vol)]_vars

\* the positional bisection is about to end without having run a step
C27_Witness ==
    /\ op = "off" /\ iv.pc = "bisect" /\ IsNaN(iv.vol)
    /\ ~(iv.ub - iv.lb > iv.tol)
    /\ BracketOrdered /\ BracketHoldsPremium


\* The calls whose termination is checked: those of SpecIV at the longest
\* time to expiry and the largest strike, without interest and dividends.
\* The solver is sequential code and takes its next step whenever it has one.
InitIVFair ==
    /\ InitIV
    /\ ivArgs.t = MaxIvT /\ ivArgs.strike = MaxIvStrike
    /\ ivArgs.r = 0 /\ ivArgs.q = 0

SpecIVFair == InitIVFair /\ [][NextIV]_vars /\ WF_vars(NextIV)

\* a loop of the positional solver has completed an iteration
IterationDone ==
    /\ op = "off" /\ iv.pc \in {"adjust", "bisect"} /\ iv'.pc \in {"adjust", "bisect"}
    /\ iv'.it # iv.it

\* the cap on the iterations that the call supplies or defaults to
MaxItOf == SearchParams(ivArgs.params).maxit

\* the iterations both loops may complete under that cap
IterationCap == IF MaxItOf + 1 > 0 THEN MaxItOf + 1 ELSE 0

NonPositiveSetting ==
    /\ Len(ivArgs.params) > 0
    /\ \/ ("Tolerance" \in DOMAIN ivArgs.params[1] /\ ivArgs.params[1].Tolerance <= 0)
       \/ ("MaxIterations" \in DOMAIN ivArgs.params[1]
              /\ ivArgs.params[1].MaxIterations <= 0)

\* the counter is shared by the two loops and never reset
CounterShared == [][IterationDone => iv'.it = iv.it + 1]_vars

\* C28: the positional ImpliedVol terminates on every input; the iterations
\* of bracket expansion and bisection together never exceed
\* maxIterations + 1, also when the tolerance or maxIterations is zero or
\* negative.
C28_IterationsWithinCap ==
    /\ CounterShared
    /\ [](iv.it <= MaxItOf + 1)
    /\ <>IvDone

\* C28, amended: the iterations never exceed maxIterations + 1, or zero when
\* maxIterations + 1 is negative.
C28_IterationsWithinCapOrNone ==
    /\ CounterShared
    /\ [](iv.it <= IterationCap)
    /\ <>IvDone

\* a call with tolerance zero has raised its upper bound, bisected, and is
\* about to be stopped by the cap that the two loops share
C28_Witness ==
    /\ op = "off" /\ iv.pc = "bisect" /\ NonPositiveSetting
    /\ iv.it = MaxItOf + 1 /\ iv.ub - iv.lb > iv.tol
    /\ IsNum(iv.vol) /\ iv.ub > SearchParams(ivArgs.params).ub


\* a turn of the loop of PriceSim has run
LoopTurn == op = "sim" /\ sim.pc = "loop" /\ sim'.pc = "loop"

\* the deviates of a call with n paths, as its arguments alone determine them
RECURSIVE DrawsOf(_, _)
DrawsOf(i, n) ==
    IF i < n
    THEN << NormCDFInverseQuantile(i, n).val.n, -NormCDFInverseQuantile(i, n).val.n >>
             \o DrawsOf(i + 2, n)
    ELSE IF n % 2 = 1 THEN << 0 >> ELSE << >>

\* C29: in every turn of the loop of PriceSim, for every numPaths >= 1, the
\* quantile u = i/numPaths lies strictly between 0 and 1, so that
\* NormCDFInverse returns a finite deviate without failing and the sum takes
\* no infinite draw; the price returned is a function of the arguments alone.
C29_QuantileStrictlyInside ==
    [][/\ LoopTurn =>
            LET z == NormCDFInverseQuantile(sim.i, sim.npaths)
            IN  /\ sim.npaths >= 1 /\ 0 < sim.i /\ sim.i < sim.npaths
                /\ IsNum(z.val) /\ z.err = "nil"
                /\ sim'.draws = sim.draws \o << z.val.n, -z.val.n >>
                /\ sim'.sum.k # "inf"
       /\ (op = "sim" /\ sim'.pc = "done" /\ sim'.err = "nil") =>
            /\ sim'.sum.k # "inf"
            /\ sim'.price =
                  DiscountedMean(PayoffTotal(DrawsOf(1, sim.npaths)), sim.npaths)]_vars

\* the second turn of a call with four paths has run: u = 1/4, then u = 3/4
C29_Witness ==
    /\ op = "sim" /\ sim.pc = "loop" /\ sim.npaths = 4 /\ sim.i = 5
    /\ Len(sim.draws) = 4 /\ sim.draws[1] < 0 /\ sim.draws[3] > 0
    /\ sim.draws[3] = -sim.draws[1] /\ IsNum(sim.sum)


\* the goroutines launched so far, and those that have not yet called Done
Launched == {w \in WorkerIds : par.wpc[w] # "new"}
Pending == {w \in WorkerIds : par.wpc[w] \notin {"new", "end"}}

\* BSPriceSim has been called with a valid option type and n >= 1
ParValidCall == op = "par" /\ ValidOptionType(par.o) /\ par.n >= 1

\* the WaitGroup counter once every goroutine has been launched
CounterMatchesLaunched ==
    (ParValidCall /\ par.pc = "wait") =>
        /\ Launched = Workers(par.rev, par.n)
        /\ par.wg = Cardinality(Pending)

\* a goroutine goes through Lock, Unlock and Done in this order, once each
WorkerOnce ==
    [][\A w \in WorkerIds :
          /\ (par.wpc[w] = "lock" /\ par'.wpc[w] # "lock") =>
                (par.mutex = Free /\ par'.mutex = w /\ par'.wpc[w] = "draw")
          /\ (par.wpc[w] = "unlock" /\ par'.wpc[w] # "unlock") =>
                (par.mutex = w /\ par'.mutex = Free /\ par'.wpc[w] = "release")
          /\ (par.wpc[w] = "release" /\ par'.wpc[w] # "release") =>
                (par'.wg = par.wg - 1 /\ par'.wpc[w] = "end")
          /\ par.wpc[w] = "end" => par'.wpc[w] = "end"]_vars

\* the call has returned and has left no goroutine behind
ReturnedClean ==
    /\ par.pc = "done" /\ par.wg = 0 /\ par.mutex = Free
    /\ \A w \in Workers(par.rev, par.n) : par.wpc[w] = "end"

\* C30: under fair scheduling the goroutine-based BSPriceSim terminates for
\* every n >= 1: the WaitGroup counter equals the number of goroutines
\* launched, every goroutine acquires the mutex, releases it and calls Done
\* exactly once, Wait eventually returns and no goroutine stays blocked on
\* the mutex.
C30_BSPriceSimTerminates ==
    /\ []CounterMatchesLaunched
    /\ WorkerOnce
    /\ ParValidCall ~> ReturnedClean

\* wg.Wait() is blocked by a goroutine that is itself waiting for the mutex
C30_Witness ==
    /\ ParValidCall /\ par.pc = "wait" /\ par.n = 3 /\ par.rev = 2
    /\ par.wg = 2 /\ par.wpc[0] = "end" /\ InCritical(2) /\ par.wpc[1] = "lock"

====
